---- MODULE Spec2Model ----
(***************************************************************************)
(* Model of the demand-forecasting core of ForecastIQ:                     *)
(*   - class SimpleForecast (movingAverage, linearTrend,                   *)
(*     exponentialSmoothing, seasonalNaive, combinedForecast) and          *)
(*   - prepareSalesData (the time-series normalizer)                       *)
(* of the forecast router (src/unnamed/part_005).                          *)
(*                                                                         *)
(* JavaScript numbers are modelled by exact rationals <<n, d>> (d > 0, in  *)
(* lowest terms); a thrown exception by the result record Thrown.          *)
(***************************************************************************)
EXTENDS Integers, Sequences, FiniteSets, TLC

VARIABLES
    data,          \* the series handed to a predictor (sequence of numbers)
    forecastDays,  \* the horizon handed to a predictor
    method,        \* which predictor has been applied ("none" before the call)
    result,        \* what the predictor returned (or that it threw)
    salesRecords,  \* the sales rows handed to prepareSalesData
    calls,         \* how many times prepareSalesData has been called on them
    firstSeries,   \* the series returned by the first call
    timeSeries,    \* the series returned by the latest call
    outcome,       \* how the latest call ended: "none", "returned" or "threw"
    req,           \* the HTTP request being served by a route handler
    pc,            \* where its handler stands (which await it is suspended at)
    loc,           \* the local variables of the handler
    resp,          \* the HTTP response sent (status 0: none yet)
    db,            \* the tables: sales rows and inventory rows of the caller, forecasts
    write,         \* the saveForecast call: "none", "pending", "done" or "failed"
    fx,            \* what the handler has done so far (calls made, horizons used)
    handlers,      \* the per-SKU requests being served concurrently, one record each
    invReq,        \* the request being served by the inventory router
    invPc,         \* where its handler stands: "received", "loop" or "done"
    invTable,      \* the inventory rows of all users
    invLog,        \* the statements the handler has sent to the inventory table
    invResp,       \* its response: status, rows returned, per-item errors
    httpReq,       \* a GET request arriving at the forecast router
    handledBy,     \* the registered handler that answered it ("none" before)
    promise,       \* the promise returned by ProphetService.generateForecast
    child,         \* the spawned Python process
    timer,         \* the setTimeout of generateForecast: "none", "armed" or "fired"
    sigterms,      \* SIGTERM signals delivered by pythonProcess.kill
    events         \* the close, error and timeout callbacks run so far, in order

vars == <<data, forecastDays, method, result, salesRecords, calls, firstSeries, timeSeries,
          outcome, req, pc, loc, resp, db, write, fx, handlers,
          invReq, invPc, invTable, invLog, invResp, httpReq, handledBy,
          promise, child, timer, sigterms, events>>

routeVars == <<req, pc, loc, resp, db, write, fx>>

predictVars == <<data, forecastDays, method, result>>

prepareVars == <<salesRecords, calls, firstSeries, timeSeries, outcome>>

concVars == <<handlers>>

inventoryVars == <<invReq, invPc, invTable, invLog, invResp>>

dispatchVars == <<httpReq, handledBy>>

prophetVars == <<promise, child, timer, sigterms, events>>

restVars == <<concVars, inventoryVars, dispatchVars, prophetVars>>

----------------------------------------------------------------------------
(* Bounds of the model *)

MaxShortLen == 3     \* short series: every length 0..MaxShortLen

MaxVal == 3          \* daily quantities 0..MaxVal

MaxExtra == 1        \* long series: lengths SeasonLength..SeasonLength+MaxExtra

MaxH == 8            \* horizons 1..MaxH

MaxRecords == 3      \* sales rows handed to prepareSalesData: 0..MaxRecords

MaxUnits == 1        \* units_sold of a sales row: 0..MaxUnits

MaxItems == 2        \* inventory rows of the caller in the batch flow: 0..MaxItems

MaxRequests == 2     \* per-SKU requests served concurrently

MaxUpdates == 2      \* entries of the updates array of a bulk update: 1..MaxUpdates

MaxSegments == 2     \* segments of a request path below the forecast router

MaxChunks == 2       \* 'data' events in which the child's stdout arrives: 0..MaxChunks

(* Program constants *)

SeasonLength == 7    \* seasonalNaive(data, 7, forecastDays)

Alpha == <<3, 10>>   \* exponentialSmoothing(data, 0.3, forecastDays)

----------------------------------------------------------------------------
(* Exact arithmetic standing for JavaScript numbers *)

Abs(x) == IF x < 0 THEN -x ELSE x

Max(a, b) == IF a >= b THEN a ELSE b

RECURSIVE Gcd(_, _)
Gcd(a, b) == IF b = 0 THEN a ELSE Gcd(b, a % b)

\* the rational n/d in lowest terms with a positive denominator
Rat(n, d) ==
    LET g == Gcd(Abs(n), d)
    IN  <<n \div g, d \div g>>

Num(k) == <<k, 1>>

RAdd(a, b) ==
    LET l == (a[2] \div Gcd(a[2], b[2])) * b[2]
    IN  Rat(a[1] * (l \div a[2]) + b[1] * (l \div b[2]), l)

RMul(a, b) ==
    LET g1 == Gcd(Abs(a[1]), b[2])
        g2 == Gcd(Abs(b[1]), a[2])
    IN  Rat((a[1] \div g1) * (b[1] \div g2), (a[2] \div g2) * (b[2] \div g1))

RDivInt(a, k) == RMul(a, <<1, k>>)

RLess(a, b) == a[1] * b[2] < b[1] * a[2]

RMax(a, b) == IF RLess(a, b) THEN b ELSE a

\* Math.round: the nearest integer, a half rounding up
MathRound(a) == Num((2 * a[1] + a[2]) \div (2 * a[2]))

\* Math.max(0, x)
MathMax0(a) == RMax(Num(0), a)

RECURSIVE SumSeq(_)
SumSeq(s) == IF s = <<>> THEN 0 ELSE s[1] + SumSeq(Tail(s))

RECURSIVE RSumSeq(_)
RSumSeq(s) == IF s = <<>> THEN Num(0) ELSE RAdd(s[1], RSumSeq(Tail(s)))

\* Array(n).fill(v)
Fill(n, v) == [i \in 1..n |-> v]

\* results of a call: a value, or an exception
Returned(v) == [ok |-> TRUE, val |-> v]

Thrown == [ok |-> FALSE, val |-> <<>>]

\* simple-statistics mean(x): throws on an empty array, else sum / length
Mean(x) ==
    IF Len(x) = 0 THEN Thrown
    ELSE Returned(RDivInt(RSumSeq(x), Len(x)))

\* data.slice(-periods): the last `periods` elements; slice(-0) is slice(0)
SliceLast(x, periods) ==
    IF periods = 0 \/ periods >= Len(x) THEN x
    ELSE SubSeq(x, Len(x) - periods + 1, Len(x))

\* the series as JavaScript numbers
Nums(x) == [i \in 1..Len(x) |-> Num(x[i])]

----------------------------------------------------------------------------
(* class SimpleForecast *)

movingAverage(x, periods) ==
    IF Len(x) < periods
    THEN Returned(IF Len(x) > 0 THEN Num(x[Len(x)]) ELSE Num(0))
    ELSE Mean(Nums(SliceLast(x, periods)))

\* simple-statistics linearRegression over the points (index, value):
\* m = (n*sumXY - sumX*sumY) / (n*sumXX - sumX*sumX), b = sumY/n - m*sumX/n
linearRegression(x) ==
    LET n     == Len(x)
        sumX  == SumSeq([i \in 1..n |-> i - 1])
        sumY  == SumSeq(x)
        sumXX == SumSeq([i \in 1..n |-> (i - 1) * (i - 1)])
        sumXY == SumSeq([i \in 1..n |-> (i - 1) * x[i]])
    IN  IF n = 1 THEN [m |-> Num(0), b |-> Num(x[1])]
        ELSE LET m == Rat(n * sumXY - sumX * sumY, n * sumXX - sumX * sumX)
             IN  [m |-> m,
                  b |-> RAdd(Rat(sumY, n), RDivInt(RMul(Num(-sumX), m), n))]

\* simple-statistics linearRegressionLine(mb)(xv) = mb.b + mb.m * xv
linearRegressionLine(mb, xv) == RAdd(mb.b, RMul(mb.m, Num(xv)))

\* linearTrend with the line evaluated one day late (dayIndex = data.length + i + 1)
linearTrendDayLate(x, days) ==
    IF Len(x) < 2
    THEN Returned(Fill(days, IF Len(x) > 0 THEN Num(x[1]) ELSE Num(0)))
    ELSE LET regression == linearRegression(x)
         IN  Returned([i \in 1..days |->
                 MathMax0(MathRound(linearRegressionLine(regression, Len(x) + i)))])

linearTrend(x, days) ==
    IF Len(x) < 2
    THEN Returned(Fill(days, IF Len(x) > 0 THEN Num(x[1]) ELSE Num(0)))
    ELSE LET regression == linearRegression(x)
         IN  Returned([i \in 1..days |->
                 MathMax0(MathRound(linearRegressionLine(regression, Len(x) + (i - 1))))])

RECURSIVE smooth(_, _, _)
\* the loop of exponentialSmoothing: the smoothed value after index i (1-based)
smooth(x, alpha, i) ==
    IF i = 1 THEN Num(x[1])
    ELSE RAdd(RMul(alpha, Num(x[i])),
              RMul(RAdd(Num(1), <<-alpha[1], alpha[2]>>), smooth(x, alpha, i - 1)))

\* exponentialSmoothing with the weights of the new and the smoothed value swapped
exponentialSmoothingSwapped(x, alpha, days) ==
    IF Len(x) = 0 THEN Returned(Fill(days, Num(0)))
    ELSE IF Len(x) = 1 THEN Returned(Fill(days, Num(x[1])))
    ELSE Returned(Fill(days,
             MathMax0(MathRound(smooth(x, RAdd(Num(1), <<-alpha[1], alpha[2]>>), Len(x))))))

exponentialSmoothing(x, alpha, days) ==
    IF Len(x) = 0 THEN Returned(Fill(days, Num(0)))
    ELSE IF Len(x) = 1 THEN Returned(Fill(days, Num(x[1])))
    ELSE Returned(Fill(days, MathMax0(MathRound(smooth(x, alpha, Len(x))))))

\* seasonalNaive reading one day too early (historicalIndex without the season offset
\* of the first day: data.length - seasonLength + seasonIndex - 1)
seasonalNaiveShifted(x, seasonLength, days) ==
    IF Len(x) < seasonLength
    THEN LET avgValue == movingAverage(x, Len(x))
         IN  IF avgValue.ok THEN Returned(Fill(days, MathMax0(avgValue.val)))
             ELSE Thrown
    ELSE Returned([i \in 1..days |->
             LET seasonIndex     == (i - 1) % seasonLength
                 historicalIndex == Len(x) - seasonLength + seasonIndex - 1
                 value == IF historicalIndex >= 0 /\ historicalIndex < Len(x)
                          THEN Num(x[historicalIndex + 1]) ELSE Num(0)
             IN  MathMax0(value)])

seasonalNaive(x, seasonLength, days) ==
    IF Len(x) < seasonLength
    THEN LET avgValue == movingAverage(x, Len(x))
         IN  IF avgValue.ok THEN Returned(Fill(days, MathMax0(avgValue.val)))
             ELSE Thrown
    ELSE Returned([i \in 1..days |->
             LET seasonIndex     == (i - 1) % seasonLength
                 historicalIndex == Len(x) - seasonLength + seasonIndex
                 value == IF historicalIndex >= 0 /\ historicalIndex < Len(x)
                          THEN Num(x[historicalIndex + 1]) ELSE Num(0)
             IN  MathMax0(value)])

\* combinedForecast truncating the mean (Math.floor) instead of rounding it
combinedForecastFloor(x, days) ==
    LET lin == linearTrend(x, days)
        exp == exponentialSmoothing(x, Alpha, days)
        sea == seasonalNaive(x, SeasonLength, days)
    IN  IF ~(lin.ok /\ exp.ok /\ sea.ok) THEN Thrown
        ELSE Returned([i \in 1..days |->
                 LET values == <<lin.val[i], exp.val[i], sea.val[i]>>
                     mu     == Mean(values).val
                 IN  Num(mu[1] \div mu[2])])

combinedForecast(x, days) ==
    LET lin == linearTrend(x, days)
        exp == exponentialSmoothing(x, Alpha, days)
        sea == seasonalNaive(x, SeasonLength, days)
    IN  IF ~(lin.ok /\ exp.ok /\ sea.ok) THEN Thrown
        ELSE Returned([i \in 1..days |->
                 LET values == <<lin.val[i], exp.val[i], sea.val[i]>>
                 IN  MathRound(Mean(values).val)])

----------------------------------------------------------------------------
(* No HTTP request: the state of the route variables while only the pure *)
(* functions are exercised *)

NoRoute ==
    /\ req = [kind |-> "none"]
    /\ pc = "idle"
    /\ loc = <<>>
    /\ resp = [status |-> 0]
    /\ db = <<>>
    /\ write = "none"
    /\ fx = <<>>

\* no concurrent request is being served
NoConcurrent == handlers = <<>>

\* the inventory router is idle
NoInventoryRoute ==
    /\ invReq = [op |-> "none"]
    /\ invPc = "idle"
    /\ invTable = {}
    /\ invLog = <<>>
    /\ invResp = [status |-> 0]

\* no GET request is being dispatched
NoDispatch == httpReq = <<>> /\ handledBy = "none"

\* generateForecast has not been called
NoProphet ==
    /\ promise = [state |-> "none"]
    /\ child = [state |-> "none"]
    /\ timer = "none"
    /\ sigterms = 0
    /\ events = <<>>

NoRest == NoConcurrent /\ NoInventoryRoute /\ NoDispatch /\ NoProphet

----------------------------------------------------------------------------
(* The predictors applied to a bounded set of series and horizons *)

ShortSeries == UNION {[1..n -> 0..MaxVal] : n \in 0..MaxShortLen}

LongSeries ==
    UNION {[1..n -> {0, MaxVal}] : n \in SeasonLength..(SeasonLength + MaxExtra)}

ExampleSeries ==
    { <<10, 12, 14, 16, 18>>,
      <<5, 5, 5, 5, 5>>,
      <<18, 16, 14, 1, 0>>,
      <<3, 1, 4, 1, 5, 9, 2, 6>> }

SeriesSet == ShortSeries \cup LongSeries \cup ExampleSeries

InitPredict ==
    /\ data \in SeriesSet
    /\ forecastDays \in 1..MaxH
    /\ method = "none"
    /\ result = Thrown

CallLinearTrend ==
    /\ method = "none"
    /\ method' = "linear"
    /\ result' = linearTrend(data, forecastDays)
    /\ UNCHANGED <<data, forecastDays, prepareVars, routeVars, restVars>>

CallExponentialSmoothing ==
    /\ method = "none"
    /\ method' = "exponential"
    /\ result' = exponentialSmoothing(data, Alpha, forecastDays)
    /\ UNCHANGED <<data, forecastDays, prepareVars, routeVars, restVars>>

CallSeasonalNaive ==
    /\ method = "none"
    /\ method' = "seasonal"
    /\ result' = seasonalNaive(data, SeasonLength, forecastDays)
    /\ UNCHANGED <<data, forecastDays, prepareVars, routeVars, restVars>>

CallCombinedForecast ==
    /\ method = "none"
    /\ method' = "combined"
    /\ result' = combinedForecast(data, forecastDays)
    /\ UNCHANGED <<data, forecastDays, prepareVars, routeVars, restVars>>

Init ==
    /\ InitPredict
    /\ salesRecords = <<>>
    /\ calls = 0
    /\ firstSeries = <<>>
    /\ timeSeries = <<>>
    /\ outcome = "none"
    /\ NoRoute
    /\ NoRest

Next ==
    \/ CallLinearTrend
    \/ CallExponentialSmoothing
    \/ CallSeasonalNaive
    \/ CallCombinedForecast

Spec == Init /\ [][Next]_vars

----------------------------------------------------------------------------
(* prepareSalesData: dates *)

\* A date string 'yyyy-MM-dd' is modelled by its fields <<y, m, d>>; a Date
\* object (local midnight) by the number of days since 2023-01-01.

IsLeap(y) == (y % 4 = 0 /\ y % 100 # 0) \/ y % 400 = 0

DaysInYear(y) == IF IsLeap(y) THEN 366 ELSE 365

DaysInMonth(y, m) ==
    IF m = 2 THEN (IF IsLeap(y) THEN 29 ELSE 28)
    ELSE IF m \in {4, 6, 9, 11} THEN 30 ELSE 31

RECURSIVE DaysBeforeYear(_)
DaysBeforeYear(y) == IF y <= 2023 THEN 0 ELSE DaysInYear(y - 1) + DaysBeforeYear(y - 1)

RECURSIVE DaysBeforeMonth(_, _)
DaysBeforeMonth(y, m) ==
    IF m <= 1 THEN 0 ELSE DaysInMonth(y, m - 1) + DaysBeforeMonth(y, m - 1)

\* date-fns parseISO on a 'yyyy-MM-dd' string
parseISO(str) == DaysBeforeYear(str[1]) + DaysBeforeMonth(str[1], str[2]) + (str[3] - 1)

RECURSIVE FormatFrom(_, _, _)
FormatFrom(y, m, n) ==
    IF n >= DaysInYear(y) /\ m = 1 THEN FormatFrom(y + 1, 1, n - DaysInYear(y))
    ELSE IF n >= DaysInMonth(y, m) THEN FormatFrom(y, m + 1, n - DaysInMonth(y, m))
    ELSE <<y, m, n + 1>>

\* date-fns format(date, 'yyyy-MM-dd')
format(date) == FormatFrom(2023, 1, date)

\* date-fns addDays
addDays(date, amount) == date + amount

\* comparison of two 'yyyy-MM-dd' strings, as Array.prototype.sort() compares them
StrLess(a, b) ==
    \/ a[1] < b[1]
    \/ a[1] = b[1] /\ a[2] < b[2]
    \/ a[1] = b[1] /\ a[2] = b[2] /\ a[3] < b[3]

RECURSIVE SortStrings(_)
\* Object.keys(obj).sort()
SortStrings(keys) ==
    IF keys = {} THEN <<>>
    ELSE LET least == CHOOSE k \in keys : \A o \in keys : o = k \/ StrLess(k, o)
         IN  <<least>> \o SortStrings(keys \ {least})

----------------------------------------------------------------------------
(* prepareSalesData *)

RECURSIVE GroupByDate(_, _)
\* the forEach loop: dailySales[date] += record.units_sold, from 0
GroupByDate(records, dailySales) ==
    IF records = <<>> THEN dailySales
    ELSE LET record == Head(records)
             date   == record.date
             before == IF date \in DOMAIN dailySales THEN dailySales[date] ELSE 0
         IN  GroupByDate(Tail(records),
                 [k \in (DOMAIN dailySales) \cup {date} |->
                     IF k = date THEN before + record.units_sold ELSE dailySales[k]])

RECURSIVE FillDays(_, _, _)
\* the while loop: one entry per day from currentDate to endDate inclusive
FillDays(currentDate, endDate, dailySales) ==
    IF currentDate <= endDate
    THEN LET dateStr == format(currentDate)
         IN  <<IF dateStr \in DOMAIN dailySales THEN dailySales[dateStr] ELSE 0>>
             \o FillDays(addDays(currentDate, 1), endDate, dailySales)
    ELSE <<>>

\* a prepareSalesData that leaves out the last day (currentDate < endDate)
prepareSalesDataShort(records) ==
    LET dailySales  == GroupByDate(records, <<>>)
        sortedDates == SortStrings(DOMAIN dailySales)
    IN  IF Len(sortedDates) = 0 THEN <<>>
        ELSE FillDays(parseISO(sortedDates[1]),
                      parseISO(sortedDates[Len(sortedDates)]) - 1, dailySales)

RECURSIVE LastPerDate(_, _)
LastPerDate(records, dailySales) ==
    IF records = <<>> THEN dailySales
    ELSE LET record == Head(records)
         IN  LastPerDate(Tail(records),
                 [k \in (DOMAIN dailySales) \cup {record.date} |->
                     IF k = record.date THEN record.units_sold ELSE dailySales[k]])

\* a prepareSalesData that keeps the last row of a date instead of the sum
\* (dailySales[date] = record.units_sold)
prepareSalesDataLast(records) ==
    LET dailySales  == LastPerDate(records, <<>>)
        sortedDates == SortStrings(DOMAIN dailySales)
    IN  IF Len(sortedDates) = 0 THEN <<>>
        ELSE FillDays(parseISO(sortedDates[1]),
                      parseISO(sortedDates[Len(sortedDates)]), dailySales)

\* a prepareSalesData without the empty-input return, emitting one zero day
prepareSalesDataInvent(records) ==
    LET dailySales  == GroupByDate(records, <<>>)
        sortedDates == SortStrings(DOMAIN dailySales)
    IN  IF Len(sortedDates) = 0 THEN <<0>>
        ELSE FillDays(parseISO(sortedDates[1]),
                      parseISO(sortedDates[Len(sortedDates)]), dailySales)

prepareSalesData(records) ==
    LET dailySales  == GroupByDate(records, <<>>)
        sortedDates == SortStrings(DOMAIN dailySales)
    IN  IF Len(sortedDates) = 0 THEN <<>>
        ELSE LET startDate == parseISO(sortedDates[1])
                 endDate   == parseISO(sortedDates[Len(sortedDates)])
             IN  FillDays(startDate, endDate, dailySales)

----------------------------------------------------------------------------
(* The normalizer applied, twice, to a bounded set of sales rows *)

\* the dates of the rows of one SKU: a few days around a year end, around
\* the end of February in a leap and in a common year, or two distant days
DateWindows ==
    { {<<2023, 12, 30>>, <<2023, 12, 31>>, <<2024, 1, 1>>},
      {<<2024, 2, 28>>, <<2024, 2, 29>>, <<2024, 3, 1>>},
      {<<2023, 2, 27>>, <<2023, 2, 28>>, <<2023, 3, 1>>},
      {<<2023, 12, 31>>, <<2024, 3, 1>>} }

RecordSeqs(dates) ==
    UNION {[1..n -> [date : dates, units_sold : 0..MaxUnits]] : n \in 0..MaxRecords}

InitPrepare ==
    /\ \E dates \in DateWindows : salesRecords \in RecordSeqs(dates)
    /\ calls = 0
    /\ firstSeries = <<>>
    /\ timeSeries = <<>>
    /\ outcome = "none"
    /\ data = <<>>
    /\ forecastDays = 1
    /\ method = "none"
    /\ result = Thrown
    /\ NoRoute
    /\ NoRest

\* the orders in which the rows are supplied: as given to the first call, in
\* any order to the second
Orders ==
    IF calls = 0 THEN {[i \in 1..Len(salesRecords) |-> i]}
    ELSE Permutations(1..Len(salesRecords))

\* one call of prepareSalesData on the rows; the rows are only read
CallPrepareSalesData ==
    /\ calls < 2
    /\ \E p \in Orders :
        LET supplied == [i \in 1..Len(salesRecords) |-> salesRecords[p[i]]]
            series   == prepareSalesData(supplied)
        IN  /\ timeSeries' = series
            /\ firstSeries' = IF calls = 0 THEN series ELSE firstSeries
    /\ outcome' = "returned"
    /\ calls' = calls + 1
    /\ salesRecords' = salesRecords
    /\ UNCHANGED <<predictVars, routeVars, restVars>>

NextPrepare == CallPrepareSalesData

SpecPrepare == InitPrepare /\ [][NextPrepare]_vars

----------------------------------------------------------------------------
(* POST /generate/:sku : the pure parts of the handler *)

DefaultDays == 30    \* const { days = 30, ... } = req.body

MinDays == 1         \* Math.max(parseInt(days), 1)

MaxDays == 90        \* Math.min(..., 90)

Min(a, b) == IF a <= b THEN a ELSE b

\* a horizon as a JavaScript number: an integer, or NaN
Horizon(v) == [nan |-> FALSE, v |-> v]

NaN == [nan |-> TRUE, v |-> 0]

\* req.body.days is absent, a JSON number or a text that is no number
BodyNumber(v) == [t |-> "number", v |-> v]

BodyAbsent == [t |-> "absent", v |-> 0]

BodyText == [t |-> "text", v |-> 0]

\* the destructuring default { days = 30 }
DaysOrDefault(days) == IF days.t = "absent" THEN BodyNumber(DefaultDays) ELSE days

\* parseInt
parseInt(days) == IF days.t = "number" THEN Horizon(days.v) ELSE NaN

\* a ForecastDaysOf that hands the parsed number on as it is
ForecastDaysUnclamped(days) == parseInt(DaysOrDefault(days))

\* forecastDays = Math.min(Math.max(parseInt(days), 1), 90); NaN stays NaN
ForecastDaysOf(days) ==
    LET parsed == parseInt(DaysOrDefault(days))
    IN  IF parsed.nan THEN NaN
        ELSE Horizon(Min(Max(parsed.v, MinDays), MaxDays))

\* Array(n) throws a RangeError unless n is an integer >= 0
ArrayLengthOk(h) == ~h.nan /\ h.v >= 0

\* the predictors on any horizon: on a negative or NaN horizon Array(forecastDays)
\* throws and a loop `i < forecastDays` does not run
linearTrendAt(x, h) ==
    IF ArrayLengthOk(h) THEN linearTrend(x, h.v)
    ELSE IF Len(x) < 2 THEN Thrown ELSE Returned(<<>>)

exponentialSmoothingAt(x, alpha, h) ==
    IF ArrayLengthOk(h) THEN exponentialSmoothing(x, alpha, h.v) ELSE Thrown

seasonalNaiveAt(x, seasonLength, h) ==
    IF ArrayLengthOk(h) THEN seasonalNaive(x, seasonLength, h.v)
    ELSE IF Len(x) < seasonLength THEN Thrown ELSE Returned(<<>>)

combinedForecastAt(x, h) ==
    IF ArrayLengthOk(h) THEN combinedForecast(x, h.v) ELSE Thrown

KnownMethods == {"linear", "exponential", "seasonal", "combined"}

\* switch (method): the method used
ForecastMethodOf(m) == IF m \in {"linear", "exponential", "seasonal"} THEN m ELSE "combined"

\* switch (method): the forecast
ForecastOf(m, x, h) ==
    CASE m = "linear"      -> linearTrendAt(x, h)
      [] m = "exponential" -> exponentialSmoothingAt(x, Alpha, h)
      [] m = "seasonal"    -> seasonalNaiveAt(x, SeasonLength, h)
      [] OTHER             -> combinedForecastAt(x, h)

RECURSIVE RSumRange(_, _, _)
\* the sum of s[lo..hi]
RSumRange(s, lo, hi) ==
    IF lo > hi THEN Num(0)
    ELSE IF lo = hi THEN s[lo]
    ELSE LET mid == (lo + hi) \div 2
         IN  RAdd(RSumRange(s, lo, mid), RSumRange(s, mid + 1, hi))

\* forecast.reduce((sum, value) => sum + value, 0)
TotalOf(forecast) == RSumRange(forecast, 1, Len(forecast))

\* forecastData: day index (0-based) i is dated today + i + 1
ForecastDataOf(forecast, today, sku) ==
    [i \in 1..Len(forecast) |->
        [date |-> format(addDays(today, i)), predicted_demand |-> forecast[i], sku |-> sku]]

\* avgDailyDemand = totalPredictedDemand / forecastDays
AvgDailyDemandOf(total, h) ==
    IF h.nan \/ h.v = 0 THEN [nan |-> TRUE, val |-> Num(0)]
    ELSE IF h.v < 0 THEN [nan |-> FALSE, val |-> RDivInt(<<-total[1], total[2]>>, -h.v)]
    ELSE [nan |-> FALSE, val |-> RDivInt(total, h.v)]

\* Math.ceil, Math.floor of a quotient
MathCeil(a) == -((-a[1]) \div a[2])

FloorQuotient(k, a) == (k * a[2]) \div a[1]

NoSuggestion ==
    [present |-> FALSE, needed |-> FALSE, currentStock |-> 0, predictedDemand |-> Num(0),
     suggestedQuantity |-> -1, daysUntilStockout |-> -1, daysOfStock |-> -1, priority |-> "none"]

\* (avgDailyDemand || 1)
AvgOrOne(avg) == IF avg.nan \/ avg.val[1] = 0 THEN Num(1) ELSE avg.val

\* the divisor Math.max(avgDailyDemand, 1) in place of (avgDailyDemand || 1)
AvgAtLeastOne(avg) == IF avg.nan THEN Num(1) ELSE RMax(avg.val, Num(1))

\* the reorder suggestion of an inventory row
SuggestionFor(currentStock, reorderLevel, total, divisor) ==
    IF RLess(Num(currentStock), total)
    THEN [NoSuggestion EXCEPT
            !.present = TRUE, !.needed = TRUE, !.currentStock = currentStock,
            !.predictedDemand = total,
            !.suggestedQuantity = MathCeil(RAdd(total, Num(reorderLevel - currentStock))),
            !.daysUntilStockout = FloorQuotient(currentStock, divisor),
            !.priority = IF currentStock <= reorderLevel THEN "high" ELSE "medium"]
    ELSE [NoSuggestion EXCEPT
            !.present = TRUE, !.needed = FALSE, !.currentStock = currentStock,
            !.predictedDemand = total,
            !.daysOfStock = FloorQuotient(currentStock, divisor)]

\* the outcomes of getInventoryBySku: a row, or an error (no row, or a failure)
InventoryRow(item) == [found |-> TRUE, quantity |-> item.quantity, reorder_level |-> item.reorder_level]

InventoryError == [found |-> FALSE, quantity |-> 0, reorder_level |-> 0]

\* a try block that classifies a row as "high" only below the reorder level
ReorderSuggestionStrict(inv, total, avg) ==
    IF ~inv.found THEN NoSuggestion
    ELSE LET sg == SuggestionFor(inv.quantity, inv.reorder_level, total, AvgOrOne(avg))
         IN  IF sg.needed
             THEN [sg EXCEPT !.priority =
                      IF inv.quantity < inv.reorder_level THEN "high" ELSE "medium"]
             ELSE sg

\* a try block dividing by Math.max(avgDailyDemand, 1)
ReorderSuggestionMax(inv, total, avg) ==
    IF ~inv.found THEN NoSuggestion
    ELSE SuggestionFor(inv.quantity, inv.reorder_level, total, AvgAtLeastOne(avg))

\* a catch block that falls back to an empty stock and no threshold
ReorderSuggestionDefaulted(inv, total, avg) ==
    SuggestionFor(inv.quantity, inv.reorder_level, total, AvgOrOne(avg))

\* the try/catch around getInventoryBySku: the suggestion, or null
ReorderSuggestionOf(inv, total, avg) ==
    IF ~inv.found THEN NoSuggestion
    ELSE SuggestionFor(inv.quantity, inv.reorder_level, total, AvgOrOne(avg))

RECURSIVE PeakIn(_, _, _)
\* the reduce over fd[lo..hi]: the first entry with the greatest predicted_demand
\* (current > max ? current : max keeps max on a tie)
PeakIn(fd, lo, hi) ==
    IF lo = hi THEN fd[lo]
    ELSE LET mid   == (lo + hi) \div 2
             left  == PeakIn(fd, lo, mid)
             right == PeakIn(fd, mid + 1, hi)
         IN  IF RLess(left.predicted_demand, right.predicted_demand) THEN right ELSE left

RECURSIVE PeakInLast(_, _, _)
PeakInLast(fd, lo, hi) ==
    IF lo = hi THEN fd[lo]
    ELSE LET mid   == (lo + hi) \div 2
             left  == PeakInLast(fd, lo, mid)
             right == PeakInLast(fd, mid + 1, hi)
         IN  IF RLess(right.predicted_demand, left.predicted_demand) THEN left ELSE right

\* a reduce that replaces the maximum on a tie (current >= max)
PeakDayLast(fd) == IF Len(fd) = 0 THEN Thrown ELSE Returned(PeakInLast(fd, 1, Len(fd)))

\* forecastData.reduce((max, current) => current > max ? current : max), which
\* throws on an empty array
PeakDayOf(fd) == IF Len(fd) = 0 THEN Thrown ELSE Returned(PeakIn(fd, 1, Len(fd)))

\* forecastRecords
ForecastRecordsOf(fd) ==
    [i \in 1..Len(fd) |->
        [sku |-> fd[i].sku, predicted_date |-> fd[i].date,
         predicted_demand |-> fd[i].predicted_demand, confidence_score |-> <<1, 2>>]]

\* the upsert on (user_id, sku, predicted_date), for the one caller
Upsert(forecasts, records) ==
    LET new == {records[i] : i \in 1..Len(records)}
    IN  {f \in forecasts :
            ~\E r \in new : r.sku = f.sku /\ r.predicted_date = f.predicted_date} \cup new

\* a handler without the check of the empty result
NoSalesDataIgnored(rows) == FALSE

\* if (salesData.length === 0)
NoSalesData(rows) == Len(rows) = 0

Response(status, body) == [status |-> status, body |-> body]

BadRequest == Response(400, [error |-> "Bad Request"])

NotFound == Response(404, [error |-> "No Data"])

ServerError == Response(500, [error |-> "Internal Server Error"])

\* the body of res.json of the per-SKU handler
GenerateBody(r, l, peak, suggestion) ==
    [sku |-> r.sku,
     method |-> l.forecastMethod,
     requestedMethod |-> r.method,
     forecastPeriod |-> [days |-> l.forecastDays,
                         startDate |-> l.forecastData[1].date,
                         endDate |-> l.forecastData[Len(l.forecastData)].date],
     forecast |-> l.forecastData,
     summary |-> [totalPredictedDemand |-> l.total, peakDay |-> peak],
     reorderSuggestion |-> suggestion]

----------------------------------------------------------------------------
(* POST /generate/:sku : the handler, one action per resumption *)

NoAvg == [nan |-> TRUE, val |-> Num(0)]

NoLocals ==
    [forecastDays |-> NaN, forecastMethod |-> "none", timeSeries |-> <<>>,
     forecastData |-> <<>>, total |-> Num(0), avg |-> NoAvg, inventoryFound |-> FALSE,
     suggestion |-> NoSuggestion, index |-> 0, forecasts |-> <<>>, errors |-> <<>>]

NoEffects == [salesFetches |-> 0, inventoryFetches |-> 0, saves |-> 0, horizons |-> <<>>]

Finish(response) ==
    /\ resp' = response
    /\ pc' = "done"

\* the rows getSalesData returns for a SKU
SalesRowsOf(sku) == IF sku \in DOMAIN db.sales THEN db.sales[sku] ELSE <<>>

\* from the entry of the handler to `await dbHelpers.getSalesData(...)`
GenStart ==
    /\ req.kind = "generate"
    /\ pc = "received"
    /\ IF req.sku = ""
       THEN /\ Finish(BadRequest)
            /\ UNCHANGED <<loc, fx>>
       ELSE /\ loc' = [loc EXCEPT !.forecastDays = ForecastDaysOf(req.days)]
            /\ fx' = [fx EXCEPT !.salesFetches = @ + 1]
            /\ pc' = "awaitSales"
            /\ UNCHANGED resp
    /\ UNCHANGED <<req, db, write, predictVars, prepareVars, restVars>>

\* getSalesData rejects: the outer catch answers 500
GenSalesFailed ==
    /\ req.kind = "generate"
    /\ pc = "awaitSales"
    /\ Finish(ServerError)
    /\ UNCHANGED <<req, loc, db, write, fx, predictVars, prepareVars, restVars>>

\* getSalesData resolves: up to `await dbHelpers.getInventoryBySku(...)`
GenSalesReturned ==
    /\ req.kind = "generate"
    /\ pc = "awaitSales"
    /\ LET salesData == SalesRowsOf(req.sku)
       IN  IF NoSalesData(salesData)
           THEN /\ Finish(NotFound)
                /\ UNCHANGED <<loc, fx>>
           ELSE LET series   == prepareSalesData(salesData)
                    forecast == ForecastOf(req.method, series, loc.forecastDays)
                IN  IF ~forecast.ok
                    THEN /\ Finish(ServerError)
                         /\ fx' = [fx EXCEPT !.horizons = Append(@, loc.forecastDays)]
                         /\ UNCHANGED loc
                    ELSE LET total == TotalOf(forecast.val)
                         IN  /\ loc' = [loc EXCEPT
                                    !.forecastMethod = ForecastMethodOf(req.method),
                                    !.timeSeries = series,
                                    !.forecastData =
                                        ForecastDataOf(forecast.val, db.today, req.sku),
                                    !.total = total,
                                    !.avg = AvgDailyDemandOf(total, loc.forecastDays)]
                             /\ fx' = [fx EXCEPT
                                    !.horizons = Append(@, loc.forecastDays),
                                    !.inventoryFetches = @ + 1]
                             /\ pc' = "awaitInventory"
                             /\ UNCHANGED resp
    /\ UNCHANGED <<req, db, write, predictVars, prepareVars, restVars>>

\* what follows the try/catch around getInventoryBySku: forecastRecords are
\* built and saveForecast is called
AfterInventory(inv) ==
    /\ loc' = [loc EXCEPT
           !.inventoryFound = inv.found,
           !.suggestion = ReorderSuggestionOf(inv, loc.total, loc.avg)]
    /\ fx' = [fx EXCEPT !.saves = @ + 1]
    /\ write' = "pending"
    /\ pc' = "awaitSave"
    /\ UNCHANGED <<req, resp, db, predictVars, prepareVars, restVars>>

\* getInventoryBySku resolves with the row of the SKU
GenInventoryReturned ==
    /\ req.kind = "generate"
    /\ pc = "awaitInventory"
    /\ \E i \in 1..Len(db.inventory) :
        /\ db.inventory[i].sku = req.sku
        /\ AfterInventory(InventoryRow(db.inventory[i]))

\* getInventoryBySku rejects (no row for the SKU, or the query fails)
GenInventoryFailed ==
    /\ req.kind = "generate"
    /\ pc = "awaitInventory"
    /\ AfterInventory(InventoryError)

\* the upsert of saveForecast completes
SaveSucceeds ==
    /\ write = "pending"
    /\ write' = "done"
    /\ db' = [db EXCEPT !.forecasts = Upsert(@, ForecastRecordsOf(loc.forecastData))]
    /\ UNCHANGED <<req, pc, loc, resp, fx, predictVars, prepareVars, restVars>>

\* the upsert of saveForecast fails
SaveFails ==
    /\ write = "pending"
    /\ write' = "failed"
    /\ UNCHANGED <<req, pc, loc, resp, db, fx, predictVars, prepareVars, restVars>>

\* a handler that lets a failed save reach the outer catch
GenRespondOrFail ==
    /\ req.kind = "generate"
    /\ pc = "awaitSave"
    /\ write \in {"done", "failed"}
    /\ LET peak == PeakDayOf(loc.forecastData)
       IN  IF ~peak.ok \/ write = "failed" THEN Finish(ServerError)
           ELSE Finish(Response(200, GenerateBody(req, loc, peak.val, loc.suggestion)))
    /\ UNCHANGED <<req, loc, db, write, fx, predictVars, prepareVars, restVars>>

\* `await dbHelpers.saveForecast(...)` has settled (a rejection is caught and
\* logged): res.json, or 500 when building the body throws
GenRespond ==
    /\ req.kind = "generate"
    /\ pc = "awaitSave"
    /\ write \in {"done", "failed"}
    /\ LET peak == PeakDayOf(loc.forecastData)
       IN  IF ~peak.ok THEN Finish(ServerError)
           ELSE Finish(Response(200, GenerateBody(req, loc, peak.val, loc.suggestion)))
    /\ UNCHANGED <<req, loc, db, write, fx, predictVars, prepareVars, restVars>>

----------------------------------------------------------------------------
(* POST /generate-all : the batch handler *)

\* the horizon the batch hands to combinedForecast: req.body.days as it is
BatchDaysOf(days) == Horizon(DaysOrDefault(days).v)

\* a priority that is "high" only strictly below the reorder level
BatchPriorityStrict(quantity, reorderLevel, reorderNeeded) ==
    IF quantity < reorderLevel THEN "high"
    ELSE IF reorderNeeded THEN "medium" ELSE "low"

\* priority of a batch item
BatchPriority(quantity, reorderLevel, reorderNeeded) ==
    IF quantity <= reorderLevel THEN "high"
    ELSE IF reorderNeeded THEN "medium" ELSE "low"

\* the entry pushed to forecasts for an item
BatchForecast(item, total) ==
    LET reorderNeeded == RLess(Num(item.quantity), total)
    IN  [sku |-> item.sku, currentStock |-> item.quantity,
         reorderLevel |-> item.reorder_level, predictedDemand |-> total,
         reorderNeeded |-> reorderNeeded,
         priority |-> BatchPriority(item.quantity, item.reorder_level, reorderNeeded)]

BatchError(item, message) == [sku |-> item.sku, error |-> message]

\* a sort that puts items of equal priority in reverse order
SortByPriorityReversing(forecasts) ==
    LET reversed == [i \in 1..Len(forecasts) |-> forecasts[Len(forecasts) + 1 - i]]
    IN  SelectSeq(reversed, LAMBDA f : f.priority = "high")
        \o SelectSeq(reversed, LAMBDA f : f.priority = "medium")
        \o SelectSeq(reversed, LAMBDA f : f.priority = "low")

\* forecasts.sort by priority, high first; Array.prototype.sort is stable
SortByPriority(forecasts) ==
    SelectSeq(forecasts, LAMBDA f : f.priority = "high")
    \o SelectSeq(forecasts, LAMBDA f : f.priority = "medium")
    \o SelectSeq(forecasts, LAMBDA f : f.priority = "low")

\* a body whose mediumPriority counts every item that needs a reorder
BatchBodyMediumByReorder(inventory, forecasts, errors) ==
    LET sorted == SortByPriority(forecasts)
    IN  [totalSkus |-> Len(inventory),
         successfulForecasts |-> Len(sorted),
         errors |-> Len(errors),
         forecasts |-> sorted,
         summary |->
            [highPriority |-> Len(SelectSeq(sorted, LAMBDA f : f.priority = "high")),
             mediumPriority |-> Len(SelectSeq(sorted, LAMBDA f : f.reorderNeeded)),
             reorderNeeded |-> Len(SelectSeq(sorted, LAMBDA f : f.reorderNeeded))],
         errorDetails |-> errors]

\* the body of res.json of the batch handler
BatchBody(inventory, forecasts, errors) ==
    LET sorted == SortByPriority(forecasts)
    IN  [totalSkus |-> Len(inventory),
         successfulForecasts |-> Len(sorted),
         errors |-> Len(errors),
         forecasts |-> sorted,
         summary |->
            [highPriority |-> Len(SelectSeq(sorted, LAMBDA f : f.priority = "high")),
             mediumPriority |-> Len(SelectSeq(sorted, LAMBDA f : f.priority = "medium")),
             reorderNeeded |-> Len(SelectSeq(sorted, LAMBDA f : f.reorderNeeded))],
         errorDetails |-> errors]    \* <<>> stands for undefined (no error)

\* from the entry of the handler to `await dbHelpers.getInventory(userId)`
BatchStart ==
    /\ req.kind = "generate-all"
    /\ pc = "received"
    /\ pc' = "awaitInventoryList"
    /\ fx' = [fx EXCEPT !.inventoryFetches = @ + 1]
    /\ UNCHANGED <<req, loc, resp, db, write, predictVars, prepareVars, restVars>>

\* getInventory rejects: the outer catch answers 500
BatchInventoryFailed ==
    /\ req.kind = "generate-all"
    /\ pc = "awaitInventoryList"
    /\ Finish(ServerError)
    /\ UNCHANGED <<req, loc, db, write, fx, predictVars, prepareVars, restVars>>

\* getInventory resolves: 404 on an empty list, else the loop starts and
\* awaits the sales rows of the first item
BatchInventoryReturned ==
    /\ req.kind = "generate-all"
    /\ pc = "awaitInventoryList"
    /\ IF Len(db.inventory) = 0
       THEN /\ Finish(NotFound)
            /\ UNCHANGED <<loc, fx>>
       ELSE /\ loc' = [loc EXCEPT !.index = 1, !.forecasts = <<>>, !.errors = <<>>]
            /\ fx' = [fx EXCEPT !.salesFetches = @ + 1]
            /\ pc' = "awaitItemSales"
            /\ UNCHANGED resp
    /\ UNCHANGED <<req, db, write, predictVars, prepareVars, restVars>>

\* the end of one loop iteration: the next item's getSalesData, or after the
\* last item the sort and res.json
NextItem(forecasts, errors, horizons) ==
    /\ IF loc.index = Len(db.inventory)
       THEN /\ Finish(Response(200, BatchBody(db.inventory, forecasts, errors)))
            /\ loc' = [loc EXCEPT !.forecasts = forecasts, !.errors = errors]
            /\ fx' = [fx EXCEPT !.horizons = horizons]
       ELSE /\ loc' = [loc EXCEPT !.index = @ + 1,
                                  !.forecasts = forecasts, !.errors = errors]
            /\ fx' = [fx EXCEPT !.horizons = horizons, !.salesFetches = @ + 1]
            /\ UNCHANGED <<pc, resp>>
    /\ UNCHANGED <<req, db, write, predictVars, prepareVars, restVars>>

\* a loop without the per-item catch: a rejected getSalesData ends the batch
BatchSalesFailedAborts ==
    /\ req.kind = "generate-all"
    /\ pc = "awaitItemSales"
    /\ Finish(ServerError)
    /\ UNCHANGED <<req, loc, db, write, fx, predictVars, prepareVars, restVars>>

\* getSalesData of the current item rejects: caught, recorded, the loop goes on
BatchSalesFailed ==
    /\ req.kind = "generate-all"
    /\ pc = "awaitItemSales"
    /\ NextItem(loc.forecasts,
                Append(loc.errors, BatchError(db.inventory[loc.index], "query failed")),
                fx.horizons)

\* getSalesData of the current item resolves: the body of the try block
BatchSalesReturned ==
    /\ req.kind = "generate-all"
    /\ pc = "awaitItemSales"
    /\ LET item      == db.inventory[loc.index]
           salesData == SalesRowsOf(item.sku)
           horizon   == BatchDaysOf(req.days)
       IN  IF Len(salesData) = 0
           THEN NextItem(loc.forecasts,
                         Append(loc.errors, BatchError(item, "No sales data found")),
                         fx.horizons)
           ELSE LET series   == prepareSalesData(salesData)
                    forecast == combinedForecastAt(series, horizon)
                IN  IF ~forecast.ok
                    THEN NextItem(loc.forecasts,
                                  Append(loc.errors, BatchError(item, "thrown")),
                                  Append(fx.horizons, horizon))
                    ELSE NextItem(Append(loc.forecasts,
                                         BatchForecast(item, TotalOf(forecast.val))),
                                  loc.errors,
                                  Append(fx.horizons, horizon))

----------------------------------------------------------------------------
(* The requests and tables the handlers are run on *)

Row(date, units) == [date |-> date, units_sold |-> units]

\* sales rows of one SKU as getSalesData returns them (ordered by date)
SalesCases ==
    { <<>>,
      << Row(<<2024, 2, 20>>, 4) >>,
      << Row(<<2024, 2, 20>>, 1), Row(<<2024, 2, 22>>, 1) >>,
      << Row(<<2024, 2, 20>>, 10), Row(<<2024, 2, 21>>, 12), Row(<<2024, 2, 22>>, 14),
         Row(<<2024, 2, 23>>, 16), Row(<<2024, 2, 24>>, 18) >>,
      << Row(<<2024, 2, 10>>, 3), Row(<<2024, 2, 11>>, 1), Row(<<2024, 2, 13>>, 3),
         Row(<<2024, 2, 17>>, 2) >> }

Item(sku, quantity, reorderLevel) ==
    [sku |-> sku, quantity |-> quantity, reorder_level |-> reorderLevel]

StockCases == {<<5, 10>>, <<15, 10>>, <<20, 10>>, <<100, 10>>, <<0, 0>>, <<3, 0>>}

DaysCases ==
    {BodyAbsent, BodyText} \cup
    {BodyNumber(v) : v \in {-3, 0, 1, 5, 30, MaxDays, MaxDays + 1}}

GenerateRequests ==
    [kind : {"generate"}, sku : {"", "A"}, days : DaysCases,
     method : KnownMethods \cup {"prophet"}]

GenerateTables ==
    [sales : [{"A"} -> SalesCases],
     inventory : {<<>>} \cup {<<Item("A", c[1], c[2])>> : c \in StockCases},
     forecasts : {{}},
     today : {parseISO(<<2024, 2, 27>>)}]

\* the SKUs of the caller's inventory, in the order getInventory returns them
SkuNames == <<"A", "B", "C", "D">>

BatchSalesCases ==
    { <<>>,
      << Row(<<2024, 2, 20>>, 4) >>,
      << Row(<<2024, 2, 20>>, 1), Row(<<2024, 2, 22>>, 1) >> }

BatchStockCases == {<<10, 10>>, <<15, 10>>, <<100, 10>>}

BatchRequests ==
    [kind : {"generate-all"}, sku : {""},
     days : {BodyAbsent} \cup {BodyNumber(v) : v \in {-1, 0, 5, MaxDays + 1}},
     method : {"combined", "linear"}]

BatchTables ==
    UNION { [sales : [{SkuNames[i] : i \in 1..n} -> BatchSalesCases],
             inventory : {[i \in 1..n |-> Item(SkuNames[i], c[i][1], c[i][2])] :
                             c \in [1..n -> BatchStockCases]},
             forecasts : {{}},
             today : {parseISO(<<2024, 2, 27>>)}] : n \in 0..MaxItems }

InitHandler ==
    /\ NoRest
    /\ pc = "received"
    /\ loc = NoLocals
    /\ resp = Response(0, <<>>)
    /\ write = "none"
    /\ fx = NoEffects
    /\ data = <<>>
    /\ forecastDays = 1
    /\ method = "none"
    /\ result = Thrown
    /\ salesRecords = <<>>
    /\ calls = 0
    /\ firstSeries = <<>>
    /\ timeSeries = <<>>
    /\ outcome = "none"

InitGenerate ==
    /\ req \in GenerateRequests
    /\ db \in GenerateTables
    /\ InitHandler

InitBatch ==
    /\ req \in BatchRequests
    /\ db \in BatchTables
    /\ InitHandler

InitRoutes == InitGenerate \/ InitBatch

NextRoutes ==
    \/ GenStart
    \/ GenSalesFailed
    \/ GenSalesReturned
    \/ GenInventoryReturned
    \/ GenInventoryFailed
    \/ SaveSucceeds
    \/ SaveFails
    \/ GenRespond
    \/ BatchStart
    \/ BatchInventoryFailed
    \/ BatchInventoryReturned
    \/ BatchSalesFailed
    \/ BatchSalesReturned

SpecRoutes == InitRoutes /\ [][NextRoutes]_vars

----------------------------------------------------------------------------
(* POST /generate/:sku : several requests of several users, served concurrently
   on the same tables. Every request runs the handler above; its locals are the
   fields of its record in `handlers`, and db holds the rows of all users. *)

\* getSalesData(userId, sku): the rows of that user and SKU
SalesRowsFor(userId, sku) ==
    IF <<userId, sku>> \in DOMAIN db.sales THEN db.sales[<<userId, sku>>] ELSE <<>>

\* saveForecast adds user_id to every record
WithUserId(userId, records) ==
    {[user_id |-> userId, sku |-> records[i].sku,
      predicted_date |-> records[i].predicted_date,
      predicted_demand |-> records[i].predicted_demand,
      confidence_score |-> records[i].confidence_score] : i \in 1..Len(records)}

SameKey(p, q) ==
    p.user_id = q.user_id /\ p.sku = q.sku /\ p.predicted_date = q.predicted_date

\* a save that inserts without looking for a conflicting row
SaveForecastInsert(forecasts, userId, records) ==
    forecasts \cup WithUserId(userId, records)

\* a save that first deletes every stored point of the user's SKU
SaveForecastReplacing(forecasts, userId, records) ==
    {f \in forecasts :
        ~\E r \in WithUserId(userId, records) : r.user_id = f.user_id /\ r.sku = f.sku}
    \cup WithUserId(userId, records)

\* saveForecast: upsert with onConflict 'user_id,sku,predicted_date'
SaveForecast(forecasts, userId, records) ==
    LET new == WithUserId(userId, records)
    IN  {f \in forecasts : ~\E r \in new : SameKey(r, f)} \cup new

\* a request as it arrives
Arrived(userId, sku, days, m) ==
    [userId |-> userId, sku |-> sku, days |-> BodyNumber(days), method |-> m,
     pc |-> "received", forecastDays |-> NaN, forecastMethod |-> "none",
     forecastData |-> <<>>, total |-> Num(0), avg |-> NoAvg, inventoryFound |-> FALSE,
     suggestion |-> NoSuggestion, saved |-> FALSE, resp |-> Response(0, <<>>)]

Answer(h, response) == [h EXCEPT !.pc = "done", !.resp = response]

\* the handler from its entry to `await dbHelpers.getSalesData(...)`
HandlerStart(h) ==
    IF h.sku = "" THEN Answer(h, BadRequest)
    ELSE [h EXCEPT !.forecastDays = ForecastDaysOf(h.days), !.pc = "awaitSales"]

\* the handler from the rows of getSalesData to `await getInventoryBySku(...)`
HandlerOnSales(h, salesData, today) ==
    IF NoSalesData(salesData) THEN Answer(h, NotFound)
    ELSE LET forecast == ForecastOf(h.method, prepareSalesData(salesData), h.forecastDays)
         IN  IF ~forecast.ok THEN Answer(h, ServerError)
             ELSE [h EXCEPT
                     !.forecastMethod = ForecastMethodOf(h.method),
                     !.forecastData = ForecastDataOf(forecast.val, today, h.sku),
                     !.total = TotalOf(forecast.val),
                     !.avg = AvgDailyDemandOf(TotalOf(forecast.val), h.forecastDays),
                     !.pc = "awaitInventory"]

\* the handler from the outcome of getInventoryBySku to `await saveForecast(...)`
HandlerOnInventory(h, inv) ==
    [h EXCEPT !.inventoryFound = inv.found,
              !.suggestion = ReorderSuggestionOf(inv, h.total, h.avg),
              !.pc = "awaitSave"]

\* the handler after saveForecast has settled: res.json, or the outer catch
HandlerRespond(h) ==
    LET peak == PeakDayOf(h.forecastData)
    IN  IF ~peak.ok THEN Answer(h, ServerError)
        ELSE Answer(h, Response(200, GenerateBody(h, h, peak.val, h.suggestion)))

ConcUnchanged ==
    UNCHANGED <<req, pc, loc, resp, write, fx, predictVars, prepareVars,
                inventoryVars, dispatchVars, prophetVars>>

ConcStart(i) ==
    /\ handlers[i].pc = "received"
    /\ handlers' = [handlers EXCEPT ![i] = HandlerStart(@)]
    /\ UNCHANGED db
    /\ ConcUnchanged

\* a handler whose forecast lives in a variable of the module, shared by all
\* requests that have not answered yet
ConcSalesReturnedShared(i) ==
    /\ handlers[i].pc = "awaitSales"
    /\ LET mine == HandlerOnSales(handlers[i],
                                  SalesRowsFor(handlers[i].userId, handlers[i].sku), db.today)
       IN  handlers' = [j \in DOMAIN handlers |->
                           IF j = i THEN mine
                           ELSE IF handlers[j].pc \in {"awaitInventory", "awaitSave", "saveSettled"}
                           THEN [handlers[j] EXCEPT !.forecastData = mine.forecastData,
                                                    !.total = mine.total]
                           ELSE handlers[j]]
    /\ UNCHANGED db
    /\ ConcUnchanged

ConcSalesReturned(i) ==
    /\ handlers[i].pc = "awaitSales"
    /\ handlers' = [handlers EXCEPT ![i] =
                       HandlerOnSales(@, SalesRowsFor(@.userId, @.sku), db.today)]
    /\ UNCHANGED db
    /\ ConcUnchanged

\* getInventoryBySku resolves with the user's row of the SKU
ConcInventoryReturned(i) ==
    /\ handlers[i].pc = "awaitInventory"
    /\ <<handlers[i].userId, handlers[i].sku>> \in DOMAIN db.inventory
    /\ handlers' = [handlers EXCEPT ![i] =
                       HandlerOnInventory(@, InventoryRow(db.inventory[<<@.userId, @.sku>>]))]
    /\ UNCHANGED db
    /\ ConcUnchanged

\* getInventoryBySku rejects (no row, or the query fails)
ConcInventoryFailed(i) ==
    /\ handlers[i].pc = "awaitInventory"
    /\ handlers' = [handlers EXCEPT ![i] = HandlerOnInventory(@, InventoryError)]
    /\ UNCHANGED db
    /\ ConcUnchanged

ConcSaveSucceeds(i) ==
    /\ handlers[i].pc = "awaitSave"
    /\ db' = [db EXCEPT !.forecasts =
                 SaveForecast(@, handlers[i].userId,
                              ForecastRecordsOf(handlers[i].forecastData))]
    /\ handlers' = [handlers EXCEPT ![i].pc = "saveSettled", ![i].saved = TRUE]
    /\ ConcUnchanged

ConcSaveFails(i) ==
    /\ handlers[i].pc = "awaitSave"
    /\ handlers' = [handlers EXCEPT ![i].pc = "saveSettled"]
    /\ UNCHANGED db
    /\ ConcUnchanged

ConcRespond(i) ==
    /\ handlers[i].pc = "saveSettled"
    /\ handlers' = [handlers EXCEPT ![i] = HandlerRespond(@)]
    /\ UNCHANGED db
    /\ ConcUnchanged

\* the day of the requests, and the requests that can arrive
Today == parseISO(<<2024, 2, 27>>)

RequestCases ==
    { Arrived("u1", "A", 2, "linear"),
      Arrived("u1", "A", 1, "seasonal"),
      Arrived("u1", "B", 1, "linear"),
      Arrived("u2", "A", 1, "exponential"),
      Arrived("u2", "B", 1, "combined") }

\* sales and inventory rows of the two users
SalesTable ==
    ( <<"u1", "A">> :> << Row(<<2024, 2, 25>>, 2), Row(<<2024, 2, 26>>, 4) >> ) @@
    ( <<"u1", "B">> :> << Row(<<2024, 2, 26>>, 1) >> ) @@
    ( <<"u2", "A">> :> << Row(<<2024, 2, 26>>, 3) >> )

InventoryTable ==
    ( <<"u1", "A">> :> Item("A", 5, 10) ) @@
    ( <<"u2", "A">> :> Item("A", 100, 10) )

\* a point stored by an earlier request
Stored(userId, sku, day, demand) ==
    [user_id |-> userId, sku |-> sku, predicted_date |-> format(day),
     predicted_demand |-> Num(demand), confidence_score |-> <<1, 2>>]

\* points left by requests of the day before (a 4-day horizon for u1's A)
EarlierPoints ==
    { Stored("u1", "A", Today, 9), Stored("u1", "A", Today + 1, 9),
      Stored("u1", "A", Today + 2, 9), Stored("u1", "A", Today + 3, 9),
      Stored("u1", "B", Today + 1, 9), Stored("u2", "A", Today + 1, 9) }

\* no single request of the router above, no predictor or normalizer call
NoSingleCall ==
    /\ NoRoute
    /\ data = <<>>
    /\ forecastDays = 1
    /\ method = "none"
    /\ result = Thrown
    /\ salesRecords = <<>>
    /\ calls = 0
    /\ firstSeries = <<>>
    /\ timeSeries = <<>>
    /\ outcome = "none"

InitConcurrent ==
    /\ handlers \in [1..MaxRequests -> RequestCases]
    /\ db \in [sales : {SalesTable}, inventory : {InventoryTable},
               forecasts : {{}, EarlierPoints}, today : {Today}]
    /\ req = [kind |-> "none"]
    /\ pc = "idle"
    /\ loc = <<>>
    /\ resp = [status |-> 0]
    /\ write = "none"
    /\ fx = <<>>
    /\ data = <<>>
    /\ forecastDays = 1
    /\ method = "none"
    /\ result = Thrown
    /\ salesRecords = <<>>
    /\ calls = 0
    /\ firstSeries = <<>>
    /\ timeSeries = <<>>
    /\ outcome = "none"
    /\ NoInventoryRoute
    /\ NoDispatch
    /\ NoProphet

NextConcurrent ==
    \E i \in 1..MaxRequests :
        \/ ConcStart(i)
        \/ ConcSalesReturned(i)
        \/ ConcInventoryReturned(i)
        \/ ConcInventoryFailed(i)
        \/ ConcSaveSucceeds(i)
        \/ ConcSaveFails(i)
        \/ ConcRespond(i)

SpecConcurrent == InitConcurrent /\ [][NextConcurrent]_vars

----------------------------------------------------------------------------
(* The inventory router: GET /, GET /:id, PUT /:id, DELETE /:id and
   POST /bulk-update, on the inventory rows of all users *)

\* texts that are UUIDs (the type of inventory.id), and texts that are numbers
Uuids == {"a1", "b2", "c3", "d4"}

NumericTexts == {"1", "7"}

\* a value compared with the id column: a string, or an object
IdValue(v) == [obj |-> FALSE, v |-> v]

ObjectValue == [obj |-> TRUE, v |-> ""]

\* the database accepts the value as a UUID; otherwise the statement fails
IdAccepted(id) == ~id.obj /\ id.v \in Uuids

\* !id || isNaN(id)
InvalidIdParam(v) == v = "" \/ v \notin NumericTexts

\* the updates argument of updateInventory: an object with a quantity, or undefined
QuantityUpdate(q) == [defined |-> TRUE, quantity |-> q]

UndefinedUpdate == [defined |-> FALSE, quantity |-> 0]

\* .eq('user_id', userId).eq('id', id)
Matching(table, userId, id) ==
    {r \in table : r.user_id = userId /\ IdAccepted(id) /\ r.id = id.v}

\* a statement as the table sees it
Statement(op, userId, id) == [op |-> op, user_id |-> userId, id |-> id]

\* the outcome of a helper: it returned or threw (code: "" for none), the
\* statements it sent, the table after it
Outcome(ok, code, sent, table) == [ok |-> ok, code |-> code, sent |-> sent, table |-> table]

\* dbHelpers.updateInventory(userId, id, updates): throws without a user id,
\* when the statement fails, or when .single() finds no row (PGRST116)
updateInventory(table, userId, id, updates) ==
    IF userId = "" THEN Outcome(FALSE, "", <<>>, table)
    ELSE IF ~IdAccepted(id)
    THEN Outcome(FALSE, "22P02", <<Statement("update", userId, id)>>, table)
    ELSE LET hit == Matching(table, userId, id)
         IN  Outcome(hit # {}, IF hit = {} THEN "PGRST116" ELSE "",
                     <<Statement("update", userId, id)>>,
                     (table \ hit) \cup
                        {IF updates.defined THEN [r EXCEPT !.quantity = updates.quantity]
                         ELSE r : r \in hit})

\* dbHelpers.deleteInventory(userId, id)
deleteInventory(table, userId, id) ==
    IF userId = "" THEN Outcome(FALSE, "", <<>>, table)
    ELSE IF ~IdAccepted(id)
    THEN Outcome(FALSE, "22P02", <<Statement("delete", userId, id)>>, table)
    ELSE Outcome(TRUE, "", <<Statement("delete", userId, id)>>,
                 table \ Matching(table, userId, id))

\* the status of the catch blocks: 404 on PGRST116, else 500
CaughtStatus(code) == IF code = "PGRST116" THEN 404 ELSE 500

InvAnswer(status, rows, errors) ==
    /\ invResp' = [status |-> status, rows |-> rows, errors |-> errors]
    /\ invPc' = "done"

InvUnchanged ==
    UNCHANGED <<routeVars, predictVars, prepareVars, concVars, dispatchVars, prophetVars>>

\* GET / : dbHelpers.getInventory(req.auth.userId)
InvList ==
    /\ invReq.op = "list" /\ invPc = "received"
    /\ invLog' = Append(invLog, Statement("select", invReq.caller, IdValue("*")))
    /\ InvAnswer(200, {r \in invTable : r.user_id = invReq.caller}, <<>>)
    /\ UNCHANGED <<invReq, invTable>>
    /\ InvUnchanged

\* GET /:id : select with .eq('user_id', userId).eq('id', id).single()
InvGet ==
    /\ invReq.op = "get" /\ invPc = "received"
    /\ IF InvalidIdParam(invReq.id)
       THEN InvAnswer(400, {}, <<>>) /\ UNCHANGED invLog
       ELSE /\ invLog' = Append(invLog, Statement("select", invReq.caller, IdValue(invReq.id)))
            /\ LET hit == Matching(invTable, invReq.caller, IdValue(invReq.id))
               IN  IF ~IdAccepted(IdValue(invReq.id)) THEN InvAnswer(500, {}, <<>>)
                   ELSE IF hit = {} THEN InvAnswer(404, {}, <<>>)
                   ELSE InvAnswer(200, hit, <<>>)
    /\ UNCHANGED <<invReq, invTable>>
    /\ InvUnchanged

\* PUT /:id : dbHelpers.updateInventory(userId, id, updates)
InvPut ==
    /\ invReq.op = "put" /\ invPc = "received"
    /\ IF InvalidIdParam(invReq.id) \/ invReq.quantity < 0
       THEN InvAnswer(400, {}, <<>>) /\ UNCHANGED <<invLog, invTable>>
       ELSE LET r == updateInventory(invTable, invReq.caller, IdValue(invReq.id),
                                     QuantityUpdate(invReq.quantity))
            IN  /\ invLog' = invLog \o r.sent
                /\ invTable' = r.table
                /\ IF r.ok
                   THEN InvAnswer(200, Matching(r.table, invReq.caller, IdValue(invReq.id)), <<>>)
                   ELSE InvAnswer(CaughtStatus(r.code), {}, <<>>)
    /\ UNCHANGED invReq
    /\ InvUnchanged

\* DELETE /:id : dbHelpers.deleteInventory(userId, id)
InvDelete ==
    /\ invReq.op = "delete" /\ invPc = "received"
    /\ IF InvalidIdParam(invReq.id)
       THEN InvAnswer(400, {}, <<>>) /\ UNCHANGED <<invLog, invTable>>
       ELSE LET r == deleteInventory(invTable, invReq.caller, IdValue(invReq.id))
            IN  /\ invLog' = invLog \o r.sent
                /\ invTable' = r.table
                /\ IF r.ok THEN InvAnswer(200, {}, <<>>)
                   ELSE InvAnswer(CaughtStatus(r.code), {}, <<>>)
    /\ UNCHANGED invReq
    /\ InvUnchanged

\* POST /bulk-update : the check of the updates array
BulkStart ==
    /\ invReq.op = "bulk" /\ invPc = "received"
    /\ IF Len(invReq.updates) = 0
       THEN InvAnswer(400, {}, <<>>)
       ELSE /\ invPc' = "loop"
            /\ invResp' = [status |-> 0, rows |-> {}, errors |-> <<>>]
    /\ UNCHANGED <<invReq, invTable, invLog>>
    /\ InvUnchanged

\* one iteration of `for (const update of updates)`: the handler calls
\* dbHelpers.updateInventory(id, { quantity }) with two arguments, so the
\* user id is update.id, the id is the { quantity } object and updates is
\* undefined; after the last entry res.json
BulkItem ==
    /\ invReq.op = "bulk" /\ invPc = "loop"
    /\ LET done   == Cardinality(invResp.rows) + Len(invResp.errors)
           update == invReq.updates[done + 1]
           r      == IF update.id = "" \/ update.quantity < 0
                     THEN Outcome(FALSE, "", <<>>, invTable)
                     ELSE updateInventory(invTable, update.id, ObjectValue, UndefinedUpdate)
           rows   == IF r.ok THEN invResp.rows \cup Matching(r.table, update.id, ObjectValue)
                     ELSE invResp.rows
           errors == IF r.ok THEN invResp.errors ELSE Append(invResp.errors, update.id)
       IN  /\ invLog' = invLog \o r.sent
           /\ invTable' = r.table
           /\ IF done + 1 = Len(invReq.updates)
              THEN InvAnswer(200, rows, errors)
              ELSE /\ invResp' = [invResp EXCEPT !.rows = rows, !.errors = errors]
                   /\ UNCHANGED invPc
    /\ UNCHANGED invReq
    /\ InvUnchanged

InventoryRows ==
    { [id |-> "a1", user_id |-> "u1", sku |-> "A", quantity |-> 5],
      [id |-> "b2", user_id |-> "u1", sku |-> "B", quantity |-> 7],
      [id |-> "c3", user_id |-> "u2", sku |-> "A", quantity |-> 9] }

\* entries of req.body.updates: ids of rows of both users, a user id, a
\* missing id, a negative quantity
BulkEntries ==
    { [id |-> "a1", quantity |-> 8], [id |-> "c3", quantity |-> 8],
      [id |-> "u2", quantity |-> 8], [id |-> "", quantity |-> 8],
      [id |-> "b2", quantity |-> -1] }

InventoryRequests ==
    [op : {"list"}, caller : {"u1", "u2"}]
    \cup [op : {"get", "delete"}, caller : {"u1", "u2"}, id : {"a1", "c3", "1"}]
    \cup [op : {"put"}, caller : {"u1", "u2"}, id : {"a1", "c3", "1"}, quantity : {-1, 8}]
    \cup [op : {"bulk"}, caller : {"u1", "u2"},
          updates : UNION {[1..n -> BulkEntries] : n \in 0..MaxUpdates}]

InitInventory ==
    /\ invReq \in InventoryRequests
    /\ invPc = "received"
    /\ invTable = InventoryRows
    /\ invLog = <<>>
    /\ invResp = [status |-> 0]
    /\ NoSingleCall
    /\ NoConcurrent
    /\ NoDispatch
    /\ NoProphet

NextInventory ==
    \/ InvList
    \/ InvGet
    \/ InvPut
    \/ InvDelete
    \/ BulkStart
    \/ BulkItem

SpecInventory == InitInventory /\ [][NextInventory]_vars

----------------------------------------------------------------------------
(* The forecast router: which registered handler answers a request *)

Route(verb, pattern, handler) == [verb |-> verb, pattern |-> pattern, handler |-> handler]

\* the routes of the router in the order of their registration
ForecastRoutes ==
    << Route("GET", <<"methods">>, "methods"),
       Route("POST", <<"generate", ":sku">>, "generate"),
       Route("POST", <<"generate-all">>, "generateAll"),
       Route("GET", <<"dashboard", "summary">>, "dashboardSummary"),
       Route("GET", <<":sku">>, "savedForecasts"),
       Route("GET", <<"dashboard", "summary">>, "dashboardSummaryAgain"),
       Route("GET", <<"health">>, "health") >>

\* a segment of a pattern that is a parameter
IsParam(segment) == segment = ":sku"

\* the path matches the pattern of the route, segment by segment
Matches(route, verb, path) ==
    /\ route.verb = verb
    /\ Len(route.pattern) = Len(path)
    /\ \A i \in 1..Len(path) : IsParam(route.pattern[i]) \/ route.pattern[i] = path[i]

\* the first registered route that matches answers (no handler calls next())
Dispatch(verb, path) ==
    LET hits == {k \in 1..Len(ForecastRoutes) : Matches(ForecastRoutes[k], verb, path)}
    IN  IF hits = {} THEN "notFound"
        ELSE ForecastRoutes[CHOOSE k \in hits : \A o \in hits : k <= o].handler

HandleRequest ==
    /\ handledBy = "none"
    /\ handledBy' = Dispatch(httpReq.verb, httpReq.path)
    /\ UNCHANGED httpReq
    /\ UNCHANGED <<routeVars, predictVars, prepareVars, concVars, inventoryVars, prophetVars>>

PathSegments ==
    {"methods", "health", "dashboard", "summary", "generate", "generate-all", "A", "B"}

InitDispatch ==
    /\ httpReq \in [verb : {"GET", "POST"},
                    path : UNION {[1..n -> PathSegments] : n \in 1..MaxSegments}]
    /\ handledBy = "none"
    /\ NoSingleCall
    /\ NoConcurrent
    /\ NoInventoryRoute
    /\ NoProphet

NextDispatch == HandleRequest

SpecDispatch == InitDispatch /\ [][NextDispatch]_vars

----------------------------------------------------------------------------
(* ProphetService.generateForecast: the promise, the child process and the
   timer. The callbacks run one at a time on the event loop. *)

\* a promise that overwrites its state on every resolve or reject
SettleOverwriting(p, state, by) == [state |-> state, by |-> by]

\* resolve(...) / reject(...): only the first call settles the promise
Settle(p, state, by) ==
    IF p.state = "pending" THEN [state |-> state, by |-> by] ELSE p

\* a child process: "running", "failed" (it could not be started; 'error' is
\* due), "exited" (the handle is gone, 'close' is due) or "closed"; its exit
\* code (-1: killed by a signal, code null), what it wrote to stdout, and how
\* many chunks of it have been collected
Child(state, code, output, chunks) ==
    [state |-> state, code |-> code, output |-> output, chunks |-> chunks, collected |-> 0]

\* JSON.parse(stdout) succeeds
Parseable(c) == c.output = "json" /\ c.chunks > 0

\* pythonProcess.kill('SIGTERM'): the signal is delivered only while the child
\* has its handle, which Node drops when the process exits; afterwards the call
\* returns false and sends nothing
Kill(c, delivered) == IF c.state = "running" THEN delivered + 1 ELSE delivered

ProphetUnchanged ==
    UNCHANGED <<routeVars, predictVars, prepareVars, concVars, inventoryVars, dispatchVars>>

\* generateForecast is called and spawn returns a child (running, or one that
\* could not be started); the listeners are attached and the timer is armed
GenerateForecast ==
    /\ promise.state = "none"
    /\ \E st \in {"running", "failed"}, out \in {"json", "garbage"}, n \in 0..MaxChunks :
          child' = Child(st, 0, out, IF st = "failed" THEN 0 ELSE n)
    /\ promise' = [state |-> "pending", by |-> ""]
    /\ timer' = "armed"
    /\ UNCHANGED <<sigterms, events>>
    /\ ProphetUnchanged

\* spawn throws for 'python3' and for 'python': the outer catch rejects
SpawnThrows ==
    /\ promise.state = "none"
    /\ promise' = [state |-> "rejected", by |-> "catch"]
    /\ UNCHANGED <<child, timer, sigterms, events>>
    /\ ProphetUnchanged

\* pythonProcess.stdout.on('data')
StdoutData ==
    /\ child.state \in {"running", "exited"}
    /\ child.collected < child.chunks
    /\ child' = [child EXCEPT !.collected = @ + 1]
    /\ UNCHANGED <<promise, timer, sigterms, events>>
    /\ ProphetUnchanged

\* the process ends, by itself or by a signal; Node drops its handle
ChildExits ==
    /\ child.state = "running"
    /\ \E code \in {0, 1} :
          child' = [child EXCEPT !.state = "exited",
                                 !.code = IF sigterms > 0 THEN -1 ELSE code]
    /\ UNCHANGED <<promise, timer, sigterms, events>>
    /\ ProphetUnchanged

\* pythonProcess.on('error'): the process could not be started
ErrorEvent ==
    /\ child.state = "failed"
    /\ child' = [child EXCEPT !.state = "exited", !.code = -2]
    /\ promise' = Settle(promise, "rejected", "error")
    /\ events' = Append(events, "error")
    /\ UNCHANGED <<timer, sigterms>>
    /\ ProphetUnchanged

\* pythonProcess.on('close'): after the exit and the end of the stdio streams
CloseEvent ==
    /\ child.state = "exited"
    /\ child.collected = child.chunks
    /\ child' = [child EXCEPT !.state = "closed"]
    /\ promise' = IF child.code = 0 /\ Parseable(child)
                  THEN Settle(promise, "resolved", "close")
                  ELSE Settle(promise, "rejected", "close")
    /\ events' = Append(events, "close")
    /\ UNCHANGED <<timer, sigterms>>
    /\ ProphetUnchanged

\* the setTimeout callback: pythonProcess.kill('SIGTERM'), which delivers the
\* signal only while the child still has its handle, then reject
TimeoutFires ==
    /\ timer = "armed"
    /\ child.state # "failed"
    /\ timer' = "fired"
    /\ sigterms' = Kill(child, sigterms)
    /\ promise' = Settle(promise, "rejected", "timeout")
    /\ events' = Append(events, "timeout")
    /\ UNCHANGED child
    /\ ProphetUnchanged

InitProphet ==
    /\ promise = [state |-> "none"]
    /\ child = [state |-> "none"]
    /\ timer = "none"
    /\ sigterms = 0
    /\ events = <<>>
    /\ NoSingleCall
    /\ NoConcurrent
    /\ NoInventoryRoute
    /\ NoDispatch

NextProphet ==
    \/ GenerateForecast
    \/ SpawnThrows
    \/ StdoutData
    \/ ChildExits
    \/ ErrorEvent
    \/ CloseEvent
    \/ TimeoutFires

SpecProphet == InitProphet /\ [][NextProphet]_vars

----------------------------------------------------------------------------
(* Properties of POST /generate/:sku *)

\* the per-SKU request has been answered with the success body
Answered == req.kind = "generate" /\ pc = "done" /\ resp.status = 200

\* the inventory row of the requested SKU
RowOf(sku) == db.inventory[CHOOSE i \in 1..Len(db.inventory) : db.inventory[i].sku = sku]

\* k is the least integer >= the rational x
IsCeilOf(k, x) == k * x[2] >= x[1] /\ (k - 1) * x[2] < x[1]

\* k is the greatest integer <= stock / d, for a rational d > 0
IsFloorOfQuotient(k, stock, d) == k * d[1] <= stock * d[2] /\ stock * d[2] < (k + 1) * d[1]

\* C11: with an inventory record, needed holds exactly when
\* totalPredictedDemand > currentStock; then suggestedQuantity is
\* ceil(totalPredictedDemand - currentStock + reorderThreshold) and priority is
\* "high" if currentStock <= reorderThreshold, otherwise "medium".
C11_ReorderSuggestion ==
    (Answered /\ loc.inventoryFound) =>
        LET sg    == resp.body.reorderSuggestion
            total == resp.body.summary.totalPredictedDemand
            row   == RowOf(req.sku)
        IN  /\ sg.present
            /\ sg.currentStock = row.quantity
            /\ sg.needed <=> RLess(Num(row.quantity), total)
            /\ sg.needed =>
                /\ IsCeilOf(sg.suggestedQuantity,
                            RAdd(total, Num(row.reorder_level - row.quantity)))
                /\ sg.priority =
                       IF row.quantity <= row.reorder_level THEN "high" ELSE "medium"

\* stock 5, demand 20, threshold 10: needed, high, 25
C11_Witness ==
    /\ Answered
    /\ loc.inventoryFound
    /\ RowOf(req.sku).quantity = 5
    /\ RowOf(req.sku).reorder_level = 10
    /\ resp.body.summary.totalPredictedDemand = Num(20)
    /\ resp.body.reorderSuggestion.needed
    /\ resp.body.reorderSuggestion.priority = "high"
    /\ resp.body.reorderSuggestion.suggestedQuantity = 25

\* the days of cover the response reports: daysUntilStockout when a reorder is
\* needed, daysOfStock when it is not
DaysOfCover(sg) == IF sg.needed THEN sg.daysUntilStockout ELSE sg.daysOfStock

\* averageDailyDemand = totalPredictedDemand / horizonDays of the response
AverageOf(body) == RDivInt(body.summary.totalPredictedDemand, body.forecastPeriod.days.v)

\* C12 as stated: the days of cover are floor(currentStock /
\* max(averageDailyDemand, 1)) for every average, those strictly between 0 and
\* 1 included.
C12_DaysOfCoverMaxOne ==
    (Answered /\ loc.inventoryFound) =>
        IsFloorOfQuotient(DaysOfCover(resp.body.reorderSuggestion),
                          RowOf(req.sku).quantity,
                          RMax(AverageOf(resp.body), Num(1)))

\* C12: the days of cover are floor(currentStock / d), where d is 1 when
\* averageDailyDemand is zero and averageDailyDemand otherwise.
C12_DaysOfCover ==
    (Answered /\ loc.inventoryFound) =>
        LET avg == AverageOf(resp.body)
        IN  IsFloorOfQuotient(DaysOfCover(resp.body.reorderSuggestion),
                              RowOf(req.sku).quantity,
                              IF avg[1] = 0 THEN Num(1) ELSE avg)

\* stock 100, demand 20 over 30 days (an average of 2/3): 150 days of stock
C12_Witness ==
    /\ Answered
    /\ loc.inventoryFound
    /\ RowOf(req.sku).quantity = 100
    /\ resp.body.summary.totalPredictedDemand = Num(20)
    /\ resp.body.forecastPeriod.days = Horizon(30)
    /\ ~resp.body.reorderSuggestion.needed
    /\ resp.body.reorderSuggestion.daysOfStock = 150

\* C13: in the per-SKU flow and in the batch flow, every horizon handed to a
\* predictor is an integer in MinDays..MaxDays, whatever `days` the caller sent.
C13_HorizonInRange ==
    \A i \in 1..Len(fx.horizons) :
        /\ ~fx.horizons[i].nan
        /\ fx.horizons[i].v \in MinDays..MaxDays

\* the horizon the request asks for lies in [1, 90]
DaysInRange(days) ==
    \/ days.t = "absent"
    \/ days.t = "number" /\ days.v \in MinDays..MaxDays

\* nothing has been fetched, predicted or persisted
Untouched == fx = NoEffects /\ db.forecasts = {} /\ write = "none"

\* C14 as stated: a per-SKU request with an empty sku, a horizon outside
\* [1, 90] or an unknown method is rejected with a validation error before
\* observations are fetched, a predictor runs or anything is persisted.
C14_InvalidRequestRejected ==
    (/\ req.kind = "generate"
     /\ \/ req.sku = ""
        \/ ~DaysInRange(req.days)
        \/ req.method \notin {"linear", "exponential", "seasonal", "combined"})
    => /\ Untouched
       /\ pc = "done" => resp.status = 400

\* C14: only an empty sku is rejected (400, before anything is fetched,
\* predicted or persisted). A request with a sku is never answered 400: a
\* numeric horizon is clamped into [1, 90] and an unknown method is served as
\* "combined"; a non-numeric horizon is answered 404 or 500 after the
\* observations have been fetched.
C14_OnlyEmptySkuRejected ==
    req.kind = "generate" =>
        /\ req.sku = "" => Untouched /\ (pc = "done" => resp.status = 400)
        /\ (req.sku # "" /\ pc = "done") =>
              /\ resp.status \in {200, 404, 500}
              /\ fx.salesFetches = 1
              /\ req.days.t = "text" => resp.status \in {404, 500}
              /\ resp.status = 200 =>
                    /\ req.days.t # "text"
                    /\ resp.body.forecastPeriod.days =
                          Horizon(IF DaysOrDefault(req.days).v < 1 THEN 1
                                  ELSE IF DaysOrDefault(req.days).v > 90 THEN 90
                                  ELSE DaysOrDefault(req.days).v)
                    /\ Len(resp.body.forecast) = resp.body.forecastPeriod.days.v
                    /\ resp.body.requestedMethod = req.method
                    /\ resp.body.method =
                          IF req.method \in {"linear", "exponential", "seasonal"}
                          THEN req.method ELSE "combined"

\* days = 91 and method "prophet" are answered with a 90-day combined forecast
C14_Witness ==
    /\ Answered
    /\ req.days = BodyNumber(MaxDays + 1)
    /\ req.method = "prophet"
    /\ resp.body.method = "combined"
    /\ Len(resp.body.forecast) = MaxDays
    /\ fx.saves = 1

\* C15: when getSalesData returns no rows the request ends with 404, and no
\* predictor is run, no inventory record is fetched and nothing is persisted.
C15_NoRowsNotFound ==
    /\ [](( /\ req.kind = "generate"
            /\ req.sku # ""
            /\ Len(SalesRowsOf(req.sku)) = 0 )
          => /\ fx.horizons = <<>>
             /\ fx.inventoryFetches = 0
             /\ fx.saves = 0
             /\ write = "none"
             /\ db.forecasts = {}
             /\ pc \in {"received", "awaitSales", "done"}
             /\ pc = "done" => resp.status \in {404, 500})
    /\ [][( /\ Len(SalesRowsOf(req.sku)) = 0
            /\ GenSalesReturned )
          => resp' = NotFound /\ pc' = "done"]_vars

C15_Witness ==
    /\ req.kind = "generate"
    /\ pc = "done"
    /\ resp = NotFound
    /\ fx.salesFetches = 1
    /\ Len(db.inventory) = 1

\* getInventoryBySku has settled without a row
InventoryMissed == req.kind = "generate" /\ fx.saves = 1 /\ ~loc.inventoryFound

\* C16: when the inventory fetch fails or finds no record, the request still
\* succeeds with the same forecast and summary, and the reorder advisory is
\* omitted, never filled with default stock or threshold values.
C16_AdvisoryOmitted ==
    (InventoryMissed /\ pc = "done" /\ ~loc.forecastDays.nan) =>
        /\ resp.status = 200
        /\ ~resp.body.reorderSuggestion.present
        /\ resp.body.reorderSuggestion = NoSuggestion
        /\ LET forecast == ForecastOf(req.method, prepareSalesData(SalesRowsOf(req.sku)),
                                      loc.forecastDays)
           IN  /\ forecast.ok
               /\ resp.body.forecast = ForecastDataOf(forecast.val, db.today, req.sku)
               /\ resp.body.summary.totalPredictedDemand = TotalOf(forecast.val)

\* the row exists but the fetch failed, and the request is answered
C16_Witness ==
    /\ Answered
    /\ InventoryMissed
    /\ Len(db.inventory) = 1
    /\ Len(resp.body.forecast) > 1

\* C17: a failed save is only logged: the request is answered with the success
\* response carrying the forecast, summary and reorder suggestion computed
\* before the save, and nothing is stored.
C17_SaveFailureNotSurfaced ==
    (req.kind = "generate" /\ pc = "done" /\ write = "failed" /\ ~loc.forecastDays.nan) =>
        /\ resp.status = 200
        /\ resp.body.forecast = loc.forecastData
        /\ resp.body.summary.totalPredictedDemand = loc.total
        /\ resp.body.reorderSuggestion = loc.suggestion
        /\ db.forecasts = {}

C17_Witness ==
    /\ Answered
    /\ write = "failed"
    /\ resp.body.reorderSuggestion.present
    /\ Len(resp.body.forecast) > 1

\* C18: the response of a per-SKU request can be sent while the write of
\* saveForecast is still pending.
C18_ResponseDoesNotWaitForSave ==
    (req.kind = "generate" /\ pc = "awaitSave" /\ write = "pending") => ENABLED GenRespond

\* C19: summary.peakDay is an entry of the forecast with the greatest
\* predicted demand, and among the entries with that demand the one with the
\* earliest date.
C19_PeakDayEarliestMaximum ==
    Answered =>
        LET fd   == resp.body.forecast
            peak == resp.body.summary.peakDay
        IN  /\ \E i \in 1..Len(fd) : fd[i] = peak
            /\ \A i \in 1..Len(fd) :
                  /\ ~RLess(peak.predicted_demand, fd[i].predicted_demand)
                  /\ fd[i].predicted_demand = peak.predicted_demand
                        => ~StrLess(fd[i].date, peak.date)

\* the maximum is reached on several days, after a day below the maximum
C19_Witness ==
    /\ Answered
    /\ LET fd   == resp.body.forecast
           peak == resp.body.summary.peakDay
       IN  /\ \E i \in 1..Len(fd) :
                fd[i].predicted_demand = peak.predicted_demand /\ StrLess(peak.date, fd[i].date)
           /\ \E i \in 1..Len(fd) :
                RLess(fd[i].predicted_demand, peak.predicted_demand) /\ StrLess(fd[i].date, peak.date)

----------------------------------------------------------------------------
(* Properties of POST /generate-all *)

\* the loop over the inventory snapshot has started
InLoop == req.kind = "generate-all" /\ loc.index >= 1

\* the SKUs of a list of forecasts or of error details
SkusOf(entries) == [i \in 1..Len(entries) |-> entries[i].sku]

\* C20: a SKU with no sales history, or whose processing throws, is recorded
\* as a per-item error and never aborts the batch: every SKU of the snapshot
\* is processed, each ends in exactly one of forecasts and errorDetails, and
\* the batch is answered with the success response.
C20_BatchIsolatesItems ==
    /\ [](InLoop =>
            /\ pc \in {"awaitItemSales", "done"}
            /\ Len(loc.forecasts) + Len(loc.errors) =
                  IF pc = "done" THEN loc.index ELSE loc.index - 1
            /\ \A i \in 1..Len(db.inventory) :
                  Len(SalesRowsOf(db.inventory[i].sku)) = 0 =>
                      \A j \in 1..Len(loc.forecasts) :
                          loc.forecasts[j].sku # db.inventory[i].sku
            /\ pc = "done" =>
                  /\ resp.status = 200
                  /\ loc.index = Len(db.inventory)
                  /\ fx.salesFetches = Len(db.inventory)
                  /\ resp.body.totalSkus = Len(db.inventory)
                  /\ resp.body.successfulForecasts = Len(resp.body.forecasts)
                  /\ resp.body.errors = Len(resp.body.errorDetails)
                  /\ \A i \in 1..Len(db.inventory) :
                        Cardinality({j \in 1..Len(resp.body.forecasts) :
                                        resp.body.forecasts[j].sku = db.inventory[i].sku})
                        + Cardinality({j \in 1..Len(resp.body.errorDetails) :
                                        resp.body.errorDetails[j].sku = db.inventory[i].sku})
                        = 1)
    /\ [][(pc = "awaitItemSales" /\ (BatchSalesFailed \/ BatchSalesReturned))
          => /\ SkusOf(loc'.forecasts) \o SkusOf(loc'.errors) \in
                   { SkusOf(loc.forecasts) \o SkusOf(loc.errors) \o <<db.inventory[loc.index].sku>>,
                     SkusOf(loc.forecasts) \o <<db.inventory[loc.index].sku>> \o SkusOf(loc.errors) }
             /\ (Len(SalesRowsOf(db.inventory[loc.index].sku)) = 0 \/ BatchSalesFailed)
                   => /\ loc'.forecasts = loc.forecasts
                      /\ Len(loc'.errors) = Len(loc.errors) + 1
             /\ pc' = "done" => resp'.status = 200]_vars

\* the first SKU ended in error (its fetch failed although it has sales, or
\* it has none) and a later SKU was still forecast
C20_Witness ==
    /\ InLoop
    /\ pc = "done"
    /\ resp.status = 200
    /\ Len(db.inventory) >= 2
    /\ resp.body.errors >= 1
    /\ resp.body.errorDetails[1].sku = db.inventory[1].sku
    /\ \E j \in 1..Len(resp.body.forecasts) :
          resp.body.forecasts[j].sku = db.inventory[Len(db.inventory)].sku

\* the date of the last sales row of a SKU (getSalesData orders by date)
LastObservedDate(sku) == SalesRowsOf(sku)[Len(SalesRowsOf(sku))].date

\* C23: entry i (0-indexed) of a per-SKU forecast is dated lastObservedDate +
\* i + 1, the dates are H consecutive increasing days, and
\* forecastPeriod.startDate and endDate are the first and the last of them.
C23_ForecastDatedAfterLastObservation ==
    Answered =>
        LET fd   == resp.body.forecast
            last == parseISO(LastObservedDate(req.sku))
        IN  /\ Len(fd) = resp.body.forecastPeriod.days.v
            /\ \A i \in 1..Len(fd) : fd[i].date = format(addDays(last, i))
            /\ \A i \in 1..(Len(fd) - 1) :
                  parseISO(fd[i + 1].date) = parseISO(fd[i].date) + 1
            /\ resp.body.forecastPeriod.startDate = fd[1].date
            /\ resp.body.forecastPeriod.endDate = fd[Len(fd)].date

\* the batch has been answered with the success body
BatchAnswered == req.kind = "generate-all" /\ pc = "done" /\ resp.status = 200

\* the inventory row of a SKU of the snapshot
SnapshotRow(sku) ==
    db.inventory[CHOOSE i \in 1..Len(db.inventory) : db.inventory[i].sku = sku]

\* C21: every successful batch item has priority "high" if currentStock <=
\* reorderThreshold, else "medium" if its total predicted demand exceeds
\* currentStock, else "low"; its demand is the total of the Combined forecast,
\* whatever method the caller requested.
C21_BatchPriorityCombined ==
    BatchAnswered =>
        \A j \in 1..Len(resp.body.forecasts) :
            LET f        == resp.body.forecasts[j]
                row      == SnapshotRow(f.sku)
                combined == combinedForecastAt(prepareSalesData(SalesRowsOf(f.sku)),
                                               BatchDaysOf(req.days))
            IN  /\ f.currentStock = row.quantity
                /\ f.reorderLevel = row.reorder_level
                /\ combined.ok
                /\ f.predictedDemand = TotalOf(combined.val)
                /\ f.reorderNeeded <=> RLess(Num(row.quantity), f.predictedDemand)
                /\ f.priority =
                      IF row.quantity <= row.reorder_level THEN "high"
                      ELSE IF RLess(Num(row.quantity), f.predictedDemand) THEN "medium"
                      ELSE "low"

\* method "linear" was requested; one item at its reorder level is "high",
\* another with ample stock is "low"
C21_Witness ==
    /\ BatchAnswered
    /\ req.method = "linear"
    /\ \E j \in 1..Len(resp.body.forecasts) :
          /\ resp.body.forecasts[j].priority = "high"
          /\ resp.body.forecasts[j].currentStock = resp.body.forecasts[j].reorderLevel
    /\ \E j \in 1..Len(resp.body.forecasts) : resp.body.forecasts[j].priority = "low"

\* priorityOrder = { high: 3, medium: 2, low: 1 }
PriorityRank(p) == CASE p = "high" -> 3 [] p = "medium" -> 2 [] OTHER -> 1

\* the position of a SKU in the inventory snapshot
SnapshotIndex(sku) == CHOOSE i \in 1..Len(db.inventory) : db.inventory[i].sku = sku

\* C22: in the batch result all "high" items precede all "medium" items, which
\* precede all "low" items, and items of equal priority keep their order of
\* the inventory snapshot; the list holds exactly the forecasts made.
C22_BatchSortedStable ==
    BatchAnswered =>
        LET fs == resp.body.forecasts
        IN  /\ Len(fs) = Len(loc.forecasts)
            /\ \A k \in 1..Len(loc.forecasts) : \E j \in 1..Len(fs) : fs[j] = loc.forecasts[k]
            /\ \A i, j \in 1..Len(fs) :
                  i < j =>
                     /\ PriorityRank(fs[i].priority) >= PriorityRank(fs[j].priority)
                     /\ fs[i].priority = fs[j].priority
                           => SnapshotIndex(fs[i].sku) < SnapshotIndex(fs[j].sku)

\* the sort moved a later item of the snapshot in front of an earlier one
C22_Witness ==
    /\ BatchAnswered
    /\ Len(resp.body.forecasts) >= 2
    /\ SnapshotIndex(resp.body.forecasts[1].sku) > SnapshotIndex(resp.body.forecasts[2].sku)
    /\ resp.body.forecasts[1].priority # resp.body.forecasts[2].priority

\* how many entries of a list carry one of the given SKUs / satisfy a test
CountSku(entries, sku) == Cardinality({j \in 1..Len(entries) : entries[j].sku = sku})

CountPriority(entries, p) == Cardinality({j \in 1..Len(entries) : entries[j].priority = p})

\* C27: in an answered batch every inventory item is in exactly one of the
\* forecasts list and the errors list, successfulForecasts + errors =
\* totalSkus, and summary.highPriority and summary.mediumPriority count the
\* forecasts of those priorities.
C27_BatchAccounting ==
    BatchAnswered =>
        /\ \A i \in 1..Len(db.inventory) :
              \/ /\ CountSku(resp.body.forecasts, db.inventory[i].sku) = 1
                 /\ CountSku(resp.body.errorDetails, db.inventory[i].sku) = 0
              \/ /\ CountSku(resp.body.forecasts, db.inventory[i].sku) = 0
                 /\ CountSku(resp.body.errorDetails, db.inventory[i].sku) = 1
        /\ resp.body.successfulForecasts + resp.body.errors = resp.body.totalSkus
        /\ resp.body.totalSkus = Len(db.inventory)
        /\ resp.body.summary.highPriority = CountPriority(resp.body.forecasts, "high")
        /\ resp.body.summary.mediumPriority = CountPriority(resp.body.forecasts, "medium")

\* one item failed, the other is a "high" item that needs a reorder
C27_Witness ==
    /\ BatchAnswered
    /\ resp.body.totalSkus = 2
    /\ resp.body.errors = 1
    /\ resp.body.summary.highPriority = 1
    /\ resp.body.summary.mediumPriority = 0
    /\ resp.body.summary.reorderNeeded = 1

----------------------------------------------------------------------------
(* Properties of concurrent requests and of the stored forecasts *)

\* the response of a request served alone, from entry to answer, on the rows
\* and the inventory outcome it fetched
RunAlone(request, salesData, inv, today) ==
    LET started == HandlerStart(request)
    IN  IF started.pc = "done" THEN started.resp
        ELSE LET predicted == HandlerOnSales(started, salesData, today)
             IN  IF predicted.pc = "done" THEN predicted.resp
                 ELSE HandlerRespond(HandlerOnInventory(predicted, inv)).resp

\* the inventory outcome a request saw
InventorySeenBy(h) ==
    IF h.inventoryFound THEN InventoryRow(db.inventory[<<h.userId, h.sku>>])
    ELSE InventoryError

\* C24: under any interleaving of concurrent per-SKU requests, the response of
\* each request is the one it produces when served alone on the same fetched
\* observations and inventory record.
C24_RequestsDoNotInterfere ==
    \A i \in DOMAIN handlers :
        handlers[i].pc = "done" =>
            handlers[i].resp =
                RunAlone(Arrived(handlers[i].userId, handlers[i].sku,
                                 handlers[i].days.v, handlers[i].method),
                         SalesRowsFor(handlers[i].userId, handlers[i].sku),
                         InventorySeenBy(handlers[i]), db.today)

\* a request for one SKU is answered while a request for another SKU, started
\* before that answer, is still waiting for its save
C24_Witness ==
    \E i, j \in DOMAIN handlers :
        /\ handlers[i].sku # handlers[j].sku
        /\ handlers[i].pc = "done"
        /\ handlers[i].resp.status = 200
        /\ handlers[j].pc = "awaitSave"
        /\ handlers[j].forecastData # handlers[i].forecastData

\* the keys (user, sku, predicted date) a request writes
KeysOf(h) == {<<h.userId, h.sku, h.forecastData[k].date>> : k \in 1..Len(h.forecastData)}

KeyOf(p) == <<p.user_id, p.sku, p.predicted_date>>

\* C25: the store holds at most one point per (user, sku, predictedDate); every
\* point has confidenceScore 0.5; a successful save leaves, for each date of
\* the request, the request's own predictedDemand, so that a point carries the
\* demand of the most recent request that wrote its date.
C25_UpsertByKey ==
    /\ [](\A p, q \in db.forecasts : KeyOf(p) = KeyOf(q) => p = q)
    /\ [](\A p \in db.forecasts : p.confidence_score = <<1, 2>>)
    /\ [][\A i \in DOMAIN handlers :
            ConcSaveSucceeds(i) =>
                \A k \in 1..Len(handlers[i].forecastData) :
                    \E p \in db'.forecasts :
                        /\ KeyOf(p) = <<handlers[i].userId, handlers[i].sku,
                                        handlers[i].forecastData[k].date>>
                        /\ p.predicted_demand = handlers[i].forecastData[k].predicted_demand]_vars

\* two answered requests wrote the same date with different demands, over an
\* earlier point: the store holds one point for it, with the demand of one of them
C25_Witness ==
    \E i, j \in DOMAIN handlers :
        /\ i # j
        /\ handlers[i].pc = "done" /\ handlers[i].saved
        /\ handlers[j].pc = "done" /\ handlers[j].saved
        /\ handlers[i].userId = handlers[j].userId
        /\ handlers[i].sku = handlers[j].sku
        /\ handlers[i].forecastData[1].date = handlers[j].forecastData[1].date
        /\ handlers[i].forecastData[1].predicted_demand
              # handlers[j].forecastData[1].predicted_demand
        /\ Stored("u2", "A", Today + 1, 9) \in db.forecasts
        /\ \E p \in db.forecasts :
              /\ KeyOf(p) = <<handlers[i].userId, handlers[i].sku,
                              handlers[i].forecastData[1].date>>
              /\ p.predicted_demand = handlers[i].forecastData[1].predicted_demand

\* C28: a save writes only the points of the request's own predicted dates:
\* every stored point with another date, another SKU or another user is left
\* as it was, and no other step of a handler changes the store; so the stored
\* forecast of a SKU can mix points of different requests and methods.
C28_SaveWritesOwnDatesOnly ==
    [][\A i \in DOMAIN handlers :
          IF ConcSaveSucceeds(i)
          THEN /\ \A p \in db.forecasts :
                     KeyOf(p) \notin KeysOf(handlers[i]) => p \in db'.forecasts
               /\ \A p \in db'.forecasts \ db.forecasts :
                     KeyOf(p) \in KeysOf(handlers[i])
               /\ Cardinality(KeysOf(handlers[i])) = handlers[i].forecastDays.v
          ELSE (handlers'[i] # handlers[i] /\ \A j \in DOMAIN handlers : ~ConcSaveSucceeds(j))
                  => db'.forecasts = db.forecasts]_vars

\* after a one-day request of u1 for A: its point for tomorrow, next to the
\* earlier points of A for today and for later days, and those of B and of u2
C28_Witness ==
    /\ \E i \in DOMAIN handlers :
          /\ handlers[i].userId = "u1" /\ handlers[i].sku = "A"
          /\ handlers[i].method = "seasonal"
          /\ handlers[i].pc = "done" /\ handlers[i].saved
          /\ Stored("u1", "A", Today + 1, 3) \in db.forecasts
    /\ Stored("u1", "A", Today, 9) \in db.forecasts
    /\ Stored("u1", "A", Today + 2, 9) \in db.forecasts
    /\ Stored("u1", "A", Today + 3, 9) \in db.forecasts
    /\ Stored("u1", "B", Today + 1, 9) \in db.forecasts
    /\ Stored("u2", "A", Today + 1, 9) \in db.forecasts

----------------------------------------------------------------------------
(* Properties of the inventory router *)

\* C26: every statement a route handler sends to the inventory table is
\* filtered to the rows whose user_id is the authenticated caller's id.
C26_StatementsFilterByCaller ==
    \A k \in 1..Len(invLog) : invLog[k].user_id = invReq.caller

----------------------------------------------------------------------------
(* Properties of the forecast router *)

\* C29: GET /health is answered by the health-check handler, GET /methods and
\* GET /dashboard/summary by their own handlers; none is captured by the
\* parameterised GET /:sku handler.
C29_FixedPathsReachOwnHandlers ==
    (httpReq.verb = "GET" /\ handledBy # "none") =>
        /\ httpReq.path = <<"health">> => handledBy = "health"
        /\ httpReq.path = <<"methods">> => handledBy = "methods"
        /\ httpReq.path = <<"dashboard", "summary">> => handledBy = "dashboardSummary"

----------------------------------------------------------------------------
(* Properties of ProphetService.generateForecast *)

Settled == promise.state \in {"resolved", "rejected"}

----------------------------------------------------------------------------
(* Properties of prepareSalesData *)

\* the day numbers of the rows
DaysOf(records) == {parseISO(records[i].date) : i \in 1..Len(records)}

RECURSIVE UnitsOn(_, _)
\* the units sold on day number dayNo, over all rows
UnitsOn(records, dayNo) ==
    IF records = <<>> THEN 0
    ELSE (IF parseISO(Head(records).date) = dayNo THEN Head(records).units_sold ELSE 0)
         + UnitsOn(Tail(records), dayNo)

\* C3: for a non-empty set of rows spanning d_min..d_max, the series has
\* (d_max - d_min in days) + 1 entries and entry i is the sum of the units_sold
\* of the rows dated d_min + i (0 where no row has that date).
C3_SeriesCoversSpan ==
    (calls >= 1 /\ salesRecords # <<>>) =>
        LET dMin == CHOOSE a \in DaysOf(salesRecords) : \A b \in DaysOf(salesRecords) : a <= b
            dMax == CHOOSE a \in DaysOf(salesRecords) : \A b \in DaysOf(salesRecords) : a >= b
        IN  /\ outcome = "returned"
            /\ Len(timeSeries) = (dMax - dMin) + 1
            /\ \A i \in 0..(dMax - dMin) :
                timeSeries[i + 1] = UnitsOn(salesRecords, dMin + i)

C3_Witness ==
    /\ calls = 1
    /\ salesRecords = << [date |-> <<2024, 3, 1>>, units_sold |-> 1],
                         [date |-> <<2024, 2, 28>>, units_sold |-> 1],
                         [date |-> <<2024, 3, 1>>, units_sold |-> 1] >>
    /\ timeSeries = <<1, 0, 2>>

\* C4: a second normalization of the same rows, in whatever order they are
\* supplied, returns the series of the first one, and no call changes the rows.
C4_OrderIndependent ==
    [][ /\ salesRecords' = salesRecords
        /\ calls' = 2 => timeSeries' = firstSeries' ]_vars

C4_Witness ==
    /\ calls = 2
    /\ salesRecords = << [date |-> <<2023, 12, 30>>, units_sold |-> 1],
                         [date |-> <<2024, 1, 1>>, units_sold |-> 0],
                         [date |-> <<2023, 12, 30>>, units_sold |-> 1] >>
    /\ timeSeries = <<2, 0, 0>>
    /\ firstSeries = timeSeries

\* C5 as claimed: on an empty set of rows the normalizer fails with a
\* "no data" condition instead of returning a series.
C5_EmptyInputFails ==
    (calls >= 1 /\ salesRecords = <<>>) => outcome = "threw"

\* C5 amended: prepareSalesData always returns; on an empty set of rows it
\* returns the empty series, and the series is empty only then.
C5_EmptyInputEmptySeries ==
    calls >= 1 =>
        /\ outcome = "returned"
        /\ (salesRecords = <<>>) <=> (timeSeries = <<>>)

C5_Witness ==
    /\ calls >= 1
    /\ salesRecords = <<>>
    /\ outcome = "returned"
    /\ timeSeries = <<>>

----------------------------------------------------------------------------
(* Properties of the predictors *)

Called == method # "none"

\* k is an integer nearest to the rational n/d (d > 0)
IsNearestInt(k, n, d) == 2 * Abs(k * d - n) <= d

\* the value is the JavaScript number k
IsInt(v, k) == v = <<k, 1>>

\* C1: every predictor returns, without throwing, exactly forecastDays values,
\* each >= 0, for every series (the empty and the singleton series included).
C1_PredictorsTotal ==
    Called =>
        /\ result.ok
        /\ Len(result.val) = forecastDays
        /\ \A i \in 1..Len(result.val) : result.val[i][1] >= 0

\* C2: on the empty series with horizon 5, Linear Trend, Exponential Smoothing
\* and Seasonal Naive each return five zeros.
C2_EmptySeriesZeros ==
    (data = <<>> /\ forecastDays = 5 /\ method \in {"linear", "exponential", "seasonal"})
        => result = Returned(<<Num(0), Num(0), Num(0), Num(0), Num(0)>>)

\* C6: the combined forecast has a value exactly when the three primary
\* predictors have one, and then its value of day i is the integer nearest to
\* (a half rounding up) the unweighted mean of their three values of day i.
C6_CombinedIsRoundedMean ==
    method = "combined" =>
        LET lin == linearTrend(data, forecastDays)
            exp == exponentialSmoothing(data, Alpha, forecastDays)
            sea == seasonalNaive(data, SeasonLength, forecastDays)
        IN  /\ result.ok <=> (lin.ok /\ exp.ok /\ sea.ok)
            /\ result.ok =>
                /\ Len(result.val) = forecastDays
                /\ \A i \in 1..forecastDays :
                    LET l == lin.val[i]
                        e == exp.val[i]
                        s == sea.val[i]
                        \* the sum of the three, over the common denominator den
                        den == l[2] * e[2] * s[2]
                        sum == l[1] * e[2] * s[2] + e[1] * l[2] * s[2] + s[1] * l[2] * e[2]
                        k   == result.val[i][1]
                    IN  /\ result.val[i][2] = 1
                        \* k <= sum/(3 den) + 1/2 < k + 1
                        /\ 6 * den * k <= 2 * sum + 3 * den
                        /\ 2 * sum + 3 * den < 6 * den * (k + 1)

C6_Witness ==
    /\ method = "combined"
    /\ data = <<10, 12, 14, 16, 18>>
    /\ forecastDays = 2
    /\ result = Returned(<<Num(16), Num(17)>>)

\* the sums of the least-squares normal equations of the line mb over (index, value)
ResidualSum(x, mb) ==
    RSumSeq([i \in 1..Len(x) |->
        RAdd(Num(x[i]), RAdd(RMul(Num(-(i - 1)), mb.m), <<-mb.b[1], mb.b[2]>>))])

ResidualMoment(x, mb) ==
    RSumSeq([i \in 1..Len(x) |->
        RMul(Num(i - 1),
             RAdd(Num(x[i]), RAdd(RMul(Num(-(i - 1)), mb.m), <<-mb.b[1], mb.b[2]>>)))])

\* C7: for a series of length n >= 2, linearTrend returns, for the future
\* indices n..n+H-1, the least-squares line over (index, value) clamped to >= 0
\* and rounded to the nearest integer; [10,12,14,16,18] gives 20, 22, 24, ...
C7_LinearTrendIsOLS ==
    (method = "linear" /\ Len(data) >= 2) =>
        LET mb == linearRegression(data)
        IN  /\ ResidualSum(data, mb) = Num(0)
            /\ ResidualMoment(data, mb) = Num(0)
            /\ result.ok
            /\ Len(result.val) = forecastDays
            /\ \A i \in 1..forecastDays :
                LET p == RAdd(mb.b, RMul(mb.m, Num(Len(data) + i - 1)))
                    c == IF p[1] < 0 THEN Num(0) ELSE p
                IN  /\ result.val[i][2] = 1
                    /\ IsNearestInt(result.val[i][1], c[1], c[2])
            /\ data = <<10, 12, 14, 16, 18>> =>
                \A i \in 1..forecastDays : IsInt(result.val[i], 20 + 2 * (i - 1))

C7_Witness ==
    /\ method = "linear"
    /\ data = <<10, 12, 14, 16, 18>>
    /\ forecastDays = 3
    /\ result = Returned(<<Num(20), Num(22), Num(24)>>)

RECURSIVE Pow(_, _)
Pow(b, e) == IF e = 0 THEN 1 ELSE b * Pow(b, e - 1)

\* 10^(n-1) times the smoothed value of the whole series x of length n >= 1:
\* s = 0.7^(n-1) x[1] + sum over i = 2..n of 0.3 * 0.7^(n-i) * x[i]
ScaledSmoothed(x) ==
    LET n == Len(x)
    IN  Pow(7, n - 1) * x[1]
        + SumSeq([j \in 1..(n - 1) |-> 3 * Pow(7, n - 1 - j) * Pow(10, j - 1) * x[j + 1]])

\* C8: exponentialSmoothing with alpha 0.3 returns H copies of the final
\* smoothed value floored at 0 and rounded; a constant series of value c gives
\* H copies of c.
C8_ExponentialSmoothing ==
    (method = "exponential" /\ Len(data) >= 1) =>
        /\ result.ok
        /\ Len(result.val) = forecastDays
        /\ \A i \in 1..forecastDays :
            /\ result.val[i] = result.val[1]
            /\ result.val[i][2] = 1
            /\ IsNearestInt(result.val[i][1], Max(0, ScaledSmoothed(data)), Pow(10, Len(data) - 1))
        /\ (\A j \in 1..Len(data) : data[j] = data[1]) =>
                \A i \in 1..forecastDays : IsInt(result.val[i], data[1])

C8_Witness ==
    /\ method = "exponential"
    /\ data = <<5, 5, 5, 5, 5>>
    /\ forecastDays = 5
    /\ result = Returned(<<Num(5), Num(5), Num(5), Num(5), Num(5)>>)

\* C9: for a series of at least 7 values, seasonalNaive repeats the last 7
\* observed values with period 7: day i (0-indexed) is series[len - 7 + (i mod 7)],
\* and the first entry is series[len - 7].
C9_SeasonalRepeatsLastSeason ==
    (method = "seasonal" /\ Len(data) >= 7) =>
        /\ result.ok
        /\ Len(result.val) = forecastDays
        /\ IsInt(result.val[1], data[Len(data) - 7 + 1])
        /\ \A i \in 1..forecastDays :
            IF i <= 7 THEN IsInt(result.val[i], data[Len(data) - 7 + i])
            ELSE result.val[i] = result.val[i - 7]

C9_Witness ==
    /\ method = "seasonal"
    /\ data = <<3, 1, 4, 1, 5, 9, 2, 6>>
    /\ forecastDays = 8
    /\ result = Returned(<<Num(1), Num(4), Num(1), Num(5), Num(9), Num(2), Num(6), Num(1)>>)

\* C10: for a series shorter than 7, seasonalNaive returns H equal values,
\* each the mean of all the points of the series, and 0 for the empty series.
C10_ShortSeriesMovingAverage ==
    (method = "seasonal" /\ Len(data) < 7) =>
        /\ result.ok
        /\ Len(result.val) = forecastDays
        /\ \A i \in 1..forecastDays :
            IF Len(data) = 0 THEN result.val[i] = Num(0)
            ELSE result.val[i][1] * Len(data) = SumSeq(data) * result.val[i][2]

====
